---------------------------- MODULE Spec2Model ----------------------------
(***************************************************************************)
(* CCometixLine: the threshold resolver (core/segments/threshold_utils.rs) *)
(* with its process-wide configuration cache, the color model              *)
(* (core/segments/color_utils.rs) and the editor handler that stores a     *)
(* picked color (ui/app.rs).                                               *)
(***************************************************************************)
EXTENDS Integers, Sequences, FiniteSets, TLC

VARIABLES
    store,        \* what Config::load returns at this moment: Ok(config) or Err
    cache,        \* CONFIG_CACHE: <<>> while the OnceCell is unset, else <<c>> with c the
                  \* Option<Config> inside the Mutex
    lock,         \* the Mutex inside CONFIG_CACHE: 0 when free, else the thread that holds it
    threads,      \* per thread: the resolver call it is in and where it stands in it
    calls,        \* number of resolver calls begun so far
    loads,        \* number of Config::load calls begun since the last invalidation
    invalidations,\* number of invalidate_config_cache calls so far
    storeChanges, \* number of times the backing store was rewritten so far
    ret,          \* the call that returned last with its value, or NoCall
    config,       \* App.config, the configuration the editor holds
    selected_segment, \* App.selected_segment, an index from 0
    selected_field,   \* App.selected_field
    color,        \* the AnsiColor the color picker hands over, or NoColor
    observed,     \* the threads whose calls are followed from start to return
    selected_panel,   \* App.selected_panel
    preview,      \* App.preview: preview_cache and the lines of preview_text
    run,          \* App::run: where it stands, its result, App.should_quit
    terminal,     \* the terminal: raw mode, alternate screen, width
    popups,       \* is_open of the four popup components of App
    panicked      \* a handler of App panicked

vars == <<store, cache, lock, threads, calls, loads, invalidations, storeChanges,
          ret, config, selected_segment, selected_field, color, selected_panel, preview,
          observed, run, terminal, popups, panicked>>

cacheVars ==
    <<store, cache, lock, threads, calls, loads, invalidations, storeChanges, observed>>
runVars == <<run, terminal, popups>>
appVars == <<config, selected_segment, selected_field, color, selected_panel, preview,
             runVars, panicked>>

-----------------------------------------------------------------------------
(* Option<T>: None is the empty sequence, Some(x) the one-element sequence. *)

None == <<>>
Some(x) == <<x>>
IsSome(o) == o # <<>>
Unwrap(o) == o[1]

\* Result<T, E>, the error's payload left out
Ok(x) == [ok |-> TRUE, v |-> x]
Err == [ok |-> FALSE]
\* Result::ok
ok(r) == IF r.ok THEN Some(r.v) ELSE None

NoCall == [fn |-> "NoCall"]
NoColor == [kind |-> "NoColor"]
NoField == "NoField"
NoPanel == "NoPanel"
\* PreviewComponent::new
PreviewNew == [preview_cache |-> <<>>, preview_text |-> <<>>]
\* App::run was not called
NoRun == [pc |-> "NoRun"]
NoTerminal == [raw_mode |-> FALSE, alternate_screen |-> FALSE]
\* the popup components as their new() makes them
PopupNames == {"name_input", "separator_editor", "color_picker", "icon_selector"}
AllClosed == [p \in PopupNames |-> FALSE]
RunOff == run = NoRun /\ terminal = NoTerminal /\ popups = AllClosed /\ panicked = FALSE

-----------------------------------------------------------------------------
(* serde_json::Value, as far as the resolver looks into it.                 *)

U8 == 256

JNull == [t |-> "null"]
JBool(b) == [t |-> "bool", b |-> b]
JString(s) == [t |-> "string", s |-> s]
\* a serde_json Number: repr is PosInt, NegInt or Float, n its (integral) value
JNumber(k) == [t |-> "number", repr |-> IF k >= 0 THEN "PosInt" ELSE "NegInt", n |-> k]
JFloat(k) == [t |-> "number", repr |-> "Float", n |-> k]
JObject(f) == [t |-> "object", f |-> f]

\* Value::get(key): the member of an object, None for a missing key or a non-object
json_get(v, key) ==
    IF v.t = "object" /\ key \in DOMAIN v.f THEN Some(v.f[key]) ELSE None

\* Value::as_u64: Some only for a non-negative integer number
as_u64(v) ==
    IF v.t = "number" /\ v.repr = "PosInt" THEN Some(v.n) ELSE None

\* Value::as_bool: Some only for a JSON boolean
as_bool(v) ==
    IF v.t = "bool" THEN Some(v.b) ELSE None

\* HashMap::get on a segment's options
options_get(options, key) ==
    IF key \in DOMAIN options THEN Some(options[key]) ELSE None

\* `x as u8`: the low eight bits
as_u8(n) == n % U8

-----------------------------------------------------------------------------
(* AnsiColor                                                                *)

Color16(c) == [kind |-> "Color16", c16 |-> c]
Color256(c) == [kind |-> "Color256", c256 |-> c]
Rgb(r, g, b) == [kind |-> "Rgb", r |-> r, g |-> g, b |-> b]

-----------------------------------------------------------------------------
(* threshold_utils.rs                                                       *)

DefaultWarning == 60
DefaultCritical == 80

\* config.segments.iter().find(|s| s.id == segment_id)
find_segment(cfg, segment_id) ==
    LET hits == {i \in 1..Len(cfg.segments) : cfg.segments[i].id = segment_id}
    IN  IF hits = {} THEN None
        ELSE Some(cfg.segments[CHOOSE i \in hits : \A j \in hits : i <= j])

\* options.get(key).and_then(|v| v.as_u64()).unwrap_or(default)
threshold_option(options, key, default) ==
    LET v == options_get(options, key)
        n == IF IsSome(v) THEN as_u64(Unwrap(v)) ELSE None
    IN  IF IsSome(n) THEN Unwrap(n) ELSE default

\* get_thresholds_for_segment answering with the defaults when no configuration
\* could be loaded
get_thresholds_for_segment_DefaultsOnFailure(cached, segment_id) ==
    IF ~IsSome(cached) THEN Some(<<DefaultWarning, DefaultCritical>>)
    ELSE LET seg == find_segment(Unwrap(cached), segment_id)
         IN  IF ~IsSome(seg) THEN None
             ELSE Some(<<threshold_option(Unwrap(seg).options, "warning_threshold", DefaultWarning),
                         threshold_option(Unwrap(seg).options, "critical_threshold", DefaultCritical)>>)

\* get_thresholds_for_segment, given what get_cached_config returned
get_thresholds_for_segment(cached, segment_id) ==
    IF ~IsSome(cached) THEN None
    ELSE LET seg == find_segment(Unwrap(cached), segment_id)
         IN  IF ~IsSome(seg) THEN None
             ELSE Some(<<threshold_option(Unwrap(seg).options, "warning_threshold", DefaultWarning),
                         threshold_option(Unwrap(seg).options, "critical_threshold", DefaultCritical)>>)

\* the closure applied to warning_color / critical_color: c256 first, then c16
parse_color(v) ==
    LET c256 == IF IsSome(json_get(v, "c256")) THEN as_u64(Unwrap(json_get(v, "c256"))) ELSE None
        c16  == IF IsSome(json_get(v, "c16")) THEN as_u64(Unwrap(json_get(v, "c16"))) ELSE None
    IN  IF IsSome(c256) THEN Some(Color256(as_u8(Unwrap(c256))))
        ELSE IF IsSome(c16) THEN Some(Color16(as_u8(Unwrap(c16))))
        ELSE None

\* options.get(key).and_then(parse_color)
color_option(options, key) ==
    LET v == options_get(options, key)
    IN  IF IsSome(v) THEN parse_color(Unwrap(v)) ELSE None

\* options.get(key).and_then(|v| v.as_bool())
bool_option(options, key) ==
    LET v == options_get(options, key)
    IN  IF IsSome(v) THEN as_bool(Unwrap(v)) ELSE None

\* get_color_for_utilization with the warning comparison made first
get_color_for_utilization_WarningFirst(cached1, cached2, segment_id, utilization) ==
    IF ~IsSome(cached1) THEN None
    ELSE LET seg == find_segment(Unwrap(cached1), segment_id)
             th  == get_thresholds_for_segment(cached2, segment_id)
         IN  IF ~IsSome(seg) \/ ~IsSome(th) THEN None
             ELSE IF utilization >= Unwrap(th)[1]
                  THEN color_option(Unwrap(seg).options, "warning_color")
             ELSE IF utilization >= Unwrap(th)[2]
                  THEN color_option(Unwrap(seg).options, "critical_color")
             ELSE None

\* get_color_for_utilization without the warning comparison: warning_color
\* whenever the utilization is below critical_threshold
get_color_for_utilization_NoLowerGuard(cached1, cached2, segment_id, utilization) ==
    IF ~IsSome(cached1) THEN None
    ELSE LET seg == find_segment(Unwrap(cached1), segment_id)
             th  == get_thresholds_for_segment(cached2, segment_id)
         IN  IF ~IsSome(seg) \/ ~IsSome(th) THEN None
             ELSE IF utilization >= Unwrap(th)[2]
                  THEN color_option(Unwrap(seg).options, "critical_color")
             ELSE color_option(Unwrap(seg).options, "warning_color")

\* get_color_for_utilization falling back to warning_color when critical_color
\* gives nothing
get_color_for_utilization_FallThrough(cached1, cached2, segment_id, utilization) ==
    IF ~IsSome(cached1) THEN None
    ELSE LET seg == find_segment(Unwrap(cached1), segment_id)
             th  == get_thresholds_for_segment(cached2, segment_id)
         IN  IF ~IsSome(seg) \/ ~IsSome(th) THEN None
             ELSE IF utilization >= Unwrap(th)[2]
                     /\ IsSome(color_option(Unwrap(seg).options, "critical_color"))
                  THEN color_option(Unwrap(seg).options, "critical_color")
             ELSE IF utilization >= Unwrap(th)[1]
                  THEN color_option(Unwrap(seg).options, "warning_color")
             ELSE None

\* get_color_for_utilization: cached1 is what its own get_cached_config call
\* returned, cached2 what the one inside get_thresholds_for_segment returned
get_color_for_utilization(cached1, cached2, segment_id, utilization) ==
    IF ~IsSome(cached1) THEN None
    ELSE LET seg == find_segment(Unwrap(cached1), segment_id)
             th  == get_thresholds_for_segment(cached2, segment_id)
         IN  IF ~IsSome(seg) \/ ~IsSome(th) THEN None
             ELSE IF utilization >= Unwrap(th)[2]
                  THEN color_option(Unwrap(seg).options, "critical_color")
             ELSE IF utilization >= Unwrap(th)[1]
                  THEN color_option(Unwrap(seg).options, "warning_color")
             ELSE None

\* should_be_bold reporting a false flag as no override
should_be_bold_FalseAsNone(cached1, cached2, segment_id, utilization) ==
    IF ~IsSome(cached1) THEN None
    ELSE LET seg == find_segment(Unwrap(cached1), segment_id)
             th  == get_thresholds_for_segment(cached2, segment_id)
             b   == IF utilization >= Unwrap(th)[2]
                    THEN bool_option(Unwrap(seg).options, "critical_bold")
                    ELSE IF utilization >= Unwrap(th)[1]
                    THEN bool_option(Unwrap(seg).options, "warning_bold")
                    ELSE None
         IN  IF ~IsSome(seg) \/ ~IsSome(th) THEN None
             ELSE IF b = Some(TRUE) THEN b ELSE None

\* should_be_bold, with the same two reads of the cache
should_be_bold(cached1, cached2, segment_id, utilization) ==
    IF ~IsSome(cached1) THEN None
    ELSE LET seg == find_segment(Unwrap(cached1), segment_id)
             th  == get_thresholds_for_segment(cached2, segment_id)
         IN  IF ~IsSome(seg) \/ ~IsSome(th) THEN None
             ELSE IF utilization >= Unwrap(th)[2]
                  THEN bool_option(Unwrap(seg).options, "critical_bold")
             ELSE IF utilization >= Unwrap(th)[1]
                  THEN bool_option(Unwrap(seg).options, "warning_bold")
             ELSE None

-----------------------------------------------------------------------------
(* The resolver on a populated cache, one caller: the configuration is drawn *)
(* from sample option values, each call is applied to it as a whole.         *)

Usage5Hour == "Usage5Hour"
Usage7Day == "Usage7Day"

OptionKeys == {"warning_threshold", "critical_threshold", "warning_color",
               "critical_color", "warning_bold", "critical_bold"}

\* the options HashMap holding exactly the keys whose sample is Some
MkOptions(wt, ct, wc, cc, wb, cb) ==
    LET all == [warning_threshold |-> wt, critical_threshold |-> ct,
                warning_color |-> wc, critical_color |-> cc,
                warning_bold |-> wb, critical_bold |-> cb]
    IN  [k \in {key \in OptionKeys : IsSome(all[key])} |-> Unwrap(all[k])]

\* the options the built-in themes give a usage segment
ThemeOptions ==
    MkOptions(Some(JNumber(60)), Some(JNumber(80)),
              Some(JObject([c16 |-> JNumber(11)])), Some(JObject([c16 |-> JNumber(9)])),
              Some(JBool(FALSE)), Some(JBool(TRUE)))

Segment(id, options) == [id |-> id, options |-> options]
Config(segments) == [segments |-> segments]

ThresholdSamples ==
    {None, Some(JString("high")), Some(JNumber(50)), Some(JNumber(90))}
ColorSamples ==
    {None, Some(JString("red")), Some(JObject([c16 |-> JString("11")])),
     Some(JObject([c16 |-> JNumber(11)])), Some(JObject([c256 |-> JNumber(196)])),
     Some(JObject([c16 |-> JNumber(300)]))}
BoldSamples ==
    {None, Some(JString("yes")), Some(JBool(TRUE)), Some(JBool(FALSE))}
OptionSamples ==
    {MkOptions(wt, ct, wc, cc, wb, cb) :
        wt \in ThresholdSamples, ct \in ThresholdSamples,
        wc \in ColorSamples, cc \in ColorSamples,
        wb \in BoldSamples, cb \in BoldSamples}
NoOptions == MkOptions(None, None, None, None, None, None)
ConfigSamples ==
    {Config(<<Segment(Usage5Hour, o)>>) : o \in OptionSamples}
    \cup {Config(<<Segment(Usage7Day, o7), Segment(Usage5Hour, o5)>>) :
            o7 \in {ThemeOptions, NoOptions}, o5 \in {ThemeOptions, NoOptions}}
    \cup {Config(<<>>)}
UtilizationSamples == {45, 50, 60, 65, 80, 85, 90}
SegmentIds == {Usage5Hour, Usage7Day}

CacheIdle ==
    /\ lock = 0 /\ threads = <<>> /\ calls = 0 /\ loads = 0
    /\ invalidations = 0 /\ storeChanges = 0 /\ observed = {}
AppIdle ==
    /\ config = Config(<<>>) /\ selected_segment = 0
    /\ selected_field = NoField /\ color = NoColor
    /\ selected_panel = NoPanel /\ preview = PreviewNew
    /\ RunOff

ResolveInit ==
    /\ store \in {Ok(c) : c \in ConfigSamples}
    /\ cache = <<ok(store)>>
    /\ ret = NoCall
    /\ CacheIdle /\ AppIdle

Returned(fn, args, value) == [fn |-> fn, args |-> args, value |-> value]

CallThresholds ==
    /\ ret = NoCall
    /\ \E s \in SegmentIds :
          ret' = Returned("get_thresholds_for_segment", <<s>>,
                          get_thresholds_for_segment(cache[1], s))
    /\ UNCHANGED <<cacheVars, appVars>>

CallColor ==
    /\ ret = NoCall
    /\ \E s \in SegmentIds, u \in UtilizationSamples :
          ret' = Returned("get_color_for_utilization", <<s, u>>,
                          get_color_for_utilization(cache[1], cache[1], s, u))
    /\ UNCHANGED <<cacheVars, appVars>>

CallBold ==
    /\ ret = NoCall
    /\ \E s \in SegmentIds, u \in UtilizationSamples :
          ret' = Returned("should_be_bold", <<s, u>>,
                          should_be_bold(cache[1], cache[1], s, u))
    /\ UNCHANGED <<cacheVars, appVars>>

\* the caller drops the result and is ready for its next call
Drop ==
    /\ ret # NoCall
    /\ ret' = NoCall
    /\ UNCHANGED <<cacheVars, appVars>>

ResolveNext == CallThresholds \/ CallColor \/ CallBold \/ Drop

ResolveSpec == ResolveInit /\ [][ResolveNext]_vars

-----------------------------------------------------------------------------
(* The wrap engine (WrapEngine of the design: the greedy rule behind         *)
(* StatusLineGenerator::generate_for_tui_preview).                           *)

MaxUnits == 4

Max(a, b) == IF a >= b THEN a ELSE b
Min(a, b) == IF a <= b THEN a ELSE b

saturating_sub(a, b) == IF a > b THEN a - b ELSE 0

\* RenderUnit: one segment's content, here its identity, and its measured width
RenderUnit(id, width) == [id |-> id, width |-> width]
Units(widths) == [i \in 1..Len(widths) |-> RenderUnit(i, widths[i])]

\* before the first unit: one current line, nothing on it
WrapStart == [lines |-> <<<<>>>>, current_line_width |-> 0, first_on_line |-> TRUE]

\* wrap_unit that charges no separator when it asks whether the unit fits
wrap_unit_NoSeparatorInFit(st, unit, first_ever, separator, max_width) ==
    LET separator_width == IF first_ever THEN 0 ELSE separator
        would_fit == st.current_line_width + unit.width <= max_width
    IN  IF would_fit \/ st.first_on_line
        THEN [lines |-> [st.lines EXCEPT ![Len(st.lines)] = Append(@, unit)],
              current_line_width |-> st.current_line_width + unit.width
                                     + (IF st.first_on_line THEN 0 ELSE separator_width),
              first_on_line |-> FALSE]
        ELSE [lines |-> Append(st.lines, <<unit>>),
              current_line_width |-> unit.width,
              first_on_line |-> FALSE]

\* wrap_unit that starts the new line empty and leaves the unit out
wrap_unit_DropsOnBreak(st, unit, first_ever, separator, max_width) ==
    LET separator_width == IF first_ever THEN 0 ELSE separator
        would_fit == st.current_line_width + separator_width + unit.width <= max_width
    IN  IF would_fit \/ st.first_on_line
        THEN [lines |-> [st.lines EXCEPT ![Len(st.lines)] = Append(@, unit)],
              current_line_width |-> st.current_line_width + unit.width
                                     + (IF st.first_on_line THEN 0 ELSE separator_width),
              first_on_line |-> FALSE]
        ELSE [lines |-> Append(st.lines, <<>>),
              current_line_width |-> 0,
              first_on_line |-> TRUE]

\* one step of the greedy pass: the unit joins the current line when it fits
\* or when the line has nothing on it yet, else it opens a new line
wrap_unit(st, unit, first_ever, separator, max_width) ==
    LET separator_width == IF first_ever THEN 0 ELSE separator
        would_fit == st.current_line_width + separator_width + unit.width <= max_width
    IN  IF would_fit \/ st.first_on_line
        THEN [lines |-> [st.lines EXCEPT ![Len(st.lines)] = Append(@, unit)],
              current_line_width |-> st.current_line_width + unit.width
                                     + (IF st.first_on_line THEN 0 ELSE separator_width),
              first_on_line |-> FALSE]
        ELSE [lines |-> Append(st.lines, <<unit>>),
              current_line_width |-> unit.width,
              first_on_line |-> FALSE]

RECURSIVE wrap_pass(_, _, _, _, _)
wrap_pass(st, units, i, separator, max_width) ==
    IF i > Len(units) THEN st
    ELSE wrap_pass(wrap_unit(st, units[i], i = 1, separator, max_width),
                   units, i + 1, separator, max_width)

\* wrap(units, max_width): the lines and their number
wrap(units, separator, max_width) ==
    LET st == wrap_pass(WrapStart, units, 1, separator, max_width)
    IN  [lines |-> st.lines, line_count |-> Len(st.lines)]

-----------------------------------------------------------------------------
(* color_utils.rs, and the editor storing a picked color (ui/app.rs).        *)

\* the JSON text serialize_ansi_color_to_json writes, as its members in order
serialize_ansi_color_to_json(c) ==
    CASE c.kind = "Color256" -> <<<<"c256", c.c256>>>>
      [] c.kind = "Color16" -> <<<<"c16", c.c16>>>>
      [] c.kind = "Rgb" -> <<<<"r", c.r>>, <<"g", c.g>>, <<"b", c.b>>>>

\* serde_json::from_str on such a text: the object with these members
from_str(text) ==
    Ok(JObject([k \in {text[i][1] : i \in 1..Len(text)} |->
                  JNumber(text[CHOOSE i \in 1..Len(text) : text[i][1] = k][2])]))

\* ratatui::style::Color
Named(name) == [c |-> name]
Indexed(i) == [c |-> "Indexed", i |-> i]
RgbColor(r, g, b) == [c |-> "Rgb", r |-> r, g |-> g, b |-> b]

\* c16_to_ratatui_color with the arm for 15 missing
c16_to_ratatui_color_NoGray(c16) ==
    CASE c16 = 0 -> Named("Black") [] c16 = 1 -> Named("Red")
      [] c16 = 2 -> Named("Green") [] c16 = 3 -> Named("Yellow")
      [] c16 = 4 -> Named("Blue") [] c16 = 5 -> Named("Magenta")
      [] c16 = 6 -> Named("Cyan") [] c16 = 7 -> Named("White")
      [] c16 = 8 -> Named("DarkGray") [] c16 = 9 -> Named("LightRed")
      [] c16 = 10 -> Named("LightGreen") [] c16 = 11 -> Named("LightYellow")
      [] c16 = 12 -> Named("LightBlue") [] c16 = 13 -> Named("LightMagenta")
      [] c16 = 14 -> Named("LightCyan")
      [] OTHER -> Named("White")

c16_to_ratatui_color(c16) ==
    CASE c16 = 0 -> Named("Black") [] c16 = 1 -> Named("Red")
      [] c16 = 2 -> Named("Green") [] c16 = 3 -> Named("Yellow")
      [] c16 = 4 -> Named("Blue") [] c16 = 5 -> Named("Magenta")
      [] c16 = 6 -> Named("Cyan") [] c16 = 7 -> Named("White")
      [] c16 = 8 -> Named("DarkGray") [] c16 = 9 -> Named("LightRed")
      [] c16 = 10 -> Named("LightGreen") [] c16 = 11 -> Named("LightYellow")
      [] c16 = 12 -> Named("LightBlue") [] c16 = 13 -> Named("LightMagenta")
      [] c16 = 14 -> Named("LightCyan") [] c16 = 15 -> Named("Gray")
      [] OTHER -> Named("White")

ansi_color_to_ratatui(c) ==
    CASE c.kind = "Color16" -> c16_to_ratatui_color(c.c16)
      [] c.kind = "Color256" -> Indexed(c.c256)
      [] c.kind = "Rgb" -> RgbColor(c.r, c.g, c.b)

\* SegmentConfig as the editor holds it (the icon glyphs left out)
SegmentConfig(id, enabled, colors, options) ==
    [id |-> id, enabled |-> enabled, colors |-> colors,
     styles |-> [text_bold |-> FALSE], options |-> options]
model_segment ==
    SegmentConfig("Model", TRUE,
                  [icon |-> Some(Color16(14)), text |-> Some(Color16(14)), background |-> None],
                  NoOptions)
directory_segment ==
    SegmentConfig("Directory", TRUE,
                  [icon |-> Some(Color16(11)), text |-> Some(Color16(10)), background |-> None],
                  NoOptions)
cost_segment ==
    SegmentConfig("Cost", FALSE,
                  [icon |-> Some(Color16(3)), text |-> Some(Color16(3)), background |-> None],
                  NoOptions)
usage_5hour_segment ==
    SegmentConfig(Usage5Hour, FALSE,
                  [icon |-> Some(Color16(14)), text |-> Some(Color16(14)), background |-> None],
                  ThemeOptions)
usage_7day_segment ==
    SegmentConfig(Usage7Day, FALSE,
                  [icon |-> Some(Color16(12)), text |-> Some(Color16(12)), background |-> None],
                  ThemeOptions)

-----------------------------------------------------------------------------
(* ui/components/preview.rs.  A displayed string is its text and its display *)
(* width; the text of a JSON value is the sequence of its members, a member  *)
(* that is an integer being <<key, n>> as serialize_ansi_color_to_json       *)
(* writes it and any other member <<key, "raw", value>>.                     *)

Str(text, width) == [text |-> text, width |-> width]
SegmentData(primary, secondary, metadata) ==
    [primary |-> primary, secondary |-> secondary, metadata |-> metadata]

\* the members of a color object in the order their text lists them
MemberOrder == <<"c256", "c16", "r", "g", "b">>

\* serde_json::Value::to_string
to_string(v) ==
    LET member(key, m) == IF m.t = "number" /\ m.repr # "Float"
                          THEN <<key, m.n>> ELSE <<key, "raw", m>>
        keys == SelectSeq(MemberOrder, LAMBDA k : k \in DOMAIN v.f)
    IN  IF v.t = "object" /\ DOMAIN v.f \subseteq {MemberOrder[i] : i \in 1..Len(MemberOrder)}
        THEN [i \in 1..Len(keys) |-> member(keys[i], v.f[keys[i]])]
        ELSE <<member("", v)>>

\* PreviewComponent::get_threshold_color
get_threshold_color(segment_config, utilization) ==
    LET warning_threshold ==
            threshold_option(segment_config.options, "warning_threshold", 60)
        critical_threshold ==
            threshold_option(segment_config.options, "critical_threshold", 80)
        text(key) == LET v == options_get(segment_config.options, key)
                     IN  IF IsSome(v) THEN Some(to_string(Unwrap(v))) ELSE None
    IN  IF utilization >= critical_threshold THEN text("critical_color")
        ELSE IF utilization >= warning_threshold THEN text("warning_color")
        ELSE None

\* the mock data of the two usage segments: the metadata with the override in it
usage_mock(segment_config, key, utilization, primary, secondary) ==
    LET metadata == (key :> utilization)
        color_override == get_threshold_color(segment_config, utilization)
    IN  SegmentData(primary, secondary,
                    IF IsSome(color_override)
                    THEN metadata @@ ("text_color_override" :> Unwrap(color_override))
                    ELSE metadata)

\* the match of generate_mock_segments_data on the segment's id
mock_data(segment_config) ==
    LET id == segment_config.id
    IN  CASE id = "Model" ->
               SegmentData(Str("Sonnet 4", 8), Str("", 0),
                           [model |-> "claude-4-sonnet-20250512"])
          [] id = "Directory" ->
               SegmentData(Str("CCometixLine", 12), Str("", 0),
                           [current_dir |-> "~/CCometixLine"])
          [] id = Usage5Hour ->
               usage_mock(segment_config, "five_hour_utilization", 65,
                          Str("65%", 3), Str("-> 11am", 6))
          [] id = Usage7Day ->
               usage_mock(segment_config, "seven_day_utilization", 85,
                          Str("85%", 3), Str("-> Oct 9:5am", 11))
          [] id = "Cost" ->
               SegmentData(Str("$0.02", 5), Str("", 0), [cost |-> "0.01234"])

\* generate_mock_segments_data without the `continue` for a disabled segment
generate_mock_segments_data_KeepsDisabled(cfg) ==
    [i \in 1..Len(cfg.segments) |-> <<cfg.segments[i], mock_data(cfg.segments[i])>>]

\* PreviewComponent::generate_mock_segments_data
generate_mock_segments_data(cfg) ==
    LET enabled == SelectSeq(cfg.segments, LAMBDA segment_config : segment_config.enabled)
    IN  [i \in 1..Len(enabled) |-> <<enabled[i], mock_data(enabled[i])>>]

\* the render unit of a segment: icon, space, primary and, when there is a
\* secondary text, a space and the secondary text
compose_unit(segment_config, data) ==
    RenderUnit(segment_config.id,
               1 + 1 + data.primary.width
               + (IF data.secondary.width > 0 THEN 1 + data.secondary.width ELSE 0))

\* StatusLineGenerator::generate: the flat line, segment after segment
generate(segments_data) ==
    [i \in 1..Len(segments_data) |->
        [id |-> segments_data[i][1].id,
         colors |-> segments_data[i][1].colors,
         styles |-> segments_data[i][1].styles,
         primary |-> segments_data[i][2].primary.text,
         secondary |-> segments_data[i][2].secondary.text,
         metadata |-> segments_data[i][2].metadata]]

\* StatusLineGenerator::generate_for_tui_preview: the units wrapped at the
\* content width, a single space between two units of a line
generate_for_tui_preview(segments_data, content_width) ==
    wrap([i \in 1..Len(segments_data) |->
             compose_unit(segments_data[i][1], segments_data[i][2])],
         1, content_width)

\* update_preview_with_width adding the new lines to the ones it holds
update_preview_with_width_KeepsLines(self, cfg, width) ==
    LET segments_data == generate_mock_segments_data(cfg)
        content_width == saturating_sub(width, 2)
    IN  [preview_cache |-> generate(segments_data),
         preview_text |-> self.preview_text
                          \o generate_for_tui_preview(segments_data, content_width).lines]

\* PreviewComponent::update_preview_with_width: the component afterwards
update_preview_with_width(self, cfg, width) ==
    LET segments_data == generate_mock_segments_data(cfg)
        content_width == saturating_sub(width, 2)
    IN  [preview_cache |-> generate(segments_data),
         preview_text |-> generate_for_tui_preview(segments_data, content_width).lines]

\* PreviewComponent::update_preview
update_preview(self, cfg) == update_preview_with_width(self, cfg, 80)

U16 == 65536
\* `x as u16`: the low sixteen bits
as_u16(n) == n % U16

\* calculate_height on the number of lines of preview_text
height_of_lines(len) ==
    LET line_count == Max(len, 1)
    IN  Min(as_u16(Max(line_count + 2, 3)), 8)

\* PreviewComponent::calculate_height
calculate_height(self) == height_of_lines(Len(self.preview_text))

ColorFields == {"IconColor", "TextColor", "BackgroundColor", "WarningColor", "CriticalColor"}

\* the segment apply_selected_color leaves at selected_segment
apply_to_segment(segment, fld, c) ==
    LET json == from_str(serialize_ansi_color_to_json(c))
        insert(key) == IF json.ok
                       THEN [k \in DOMAIN segment.options \cup {key} |->
                                IF k = key THEN json.v ELSE segment.options[k]]
                       ELSE segment.options
    IN  CASE fld = "IconColor" -> [segment EXCEPT !.colors.icon = Some(c)]
          [] fld = "TextColor" -> [segment EXCEPT !.colors.text = Some(c)]
          [] fld = "BackgroundColor" -> [segment EXCEPT !.colors.background = Some(c)]
          [] fld = "WarningColor" -> [segment EXCEPT !.options = insert("warning_color")]
          [] fld = "CriticalColor" -> [segment EXCEPT !.options = insert("critical_color")]
          [] OTHER -> segment

\* App::apply_selected_color: the configuration afterwards
apply_selected_color(cfg, sel, fld, c) ==
    IF sel < Len(cfg.segments)
    THEN Config([cfg.segments EXCEPT ![sel + 1] = apply_to_segment(@, fld, c)])
    ELSE cfg

RgbLevels == {0, 128, 255}
AnsiColorSamples ==
    {Color16(c) : c \in 0..(U8 - 1)} \cup {Color256(c) : c \in 0..(U8 - 1)}
    \cup {Rgb(r, g, b) : r \in RgbLevels, g \in RgbLevels, b \in RgbLevels}

ResolverIdle == CacheIdle /\ store = Err /\ cache = <<>>

ColorInit ==
    /\ config = Config(<<usage_5hour_segment, usage_7day_segment>>)
    /\ selected_segment \in 0..1
    /\ selected_field \in ColorFields
    /\ color \in AnsiColorSamples
    /\ selected_panel = "Settings"
    /\ preview = update_preview(PreviewNew, config)
    /\ ret = NoCall
    /\ ResolverIdle /\ RunOff

\* a widget asks for the renderer color of the picked color
Convert ==
    /\ ret = NoCall
    /\ ret' = Returned("ansi_color_to_ratatui", <<color>>, ansi_color_to_ratatui(color))
    /\ UNCHANGED <<cacheVars, appVars>>

\* Enter in the color picker: apply_selected_color, then update_preview
ApplySelectedColor ==
    /\ ret = NoCall
    /\ config' = apply_selected_color(config, selected_segment, selected_field, color)
    /\ preview' = update_preview(preview, config')
    /\ ret' = Returned("apply_selected_color", <<color>>, None)
    /\ UNCHANGED <<cacheVars, selected_segment, selected_field, color, selected_panel,
                   runVars, panicked>>

\* the statusline resolves the edited segment's color from the configuration the
\* editor wrote, at a utilization in the warning or the critical band
ReadBack ==
    /\ ret.fn = "apply_selected_color"
    /\ \E u \in UtilizationSamples :
          ret' = Returned("get_color_for_utilization",
                          <<config.segments[selected_segment + 1].id, u>>,
                          get_color_for_utilization(Some(config), Some(config),
                              config.segments[selected_segment + 1].id, u))
    /\ UNCHANGED <<cacheVars, appVars>>

ColorNext == Convert \/ ApplySelectedColor \/ ReadBack

ColorSpec == ColorInit /\ [][ColorNext]_vars

PaletteNames ==
    {"Black", "Red", "Green", "Yellow", "Blue", "Magenta", "Cyan", "White",
     "DarkGray", "LightRed", "LightGreen", "LightYellow", "LightBlue",
     "LightMagenta", "LightCyan", "Gray"}

(* C10: the conversion to a renderer color is total: each 16-slot value      *)
(* 0..15 gets its own entry of the 16-entry palette, a 16-slot value above   *)
(* 15 gets white, 256-slot and RGB values keep their components.             *)
C10_ConversionTotal ==
    ret.fn = "ansi_color_to_ratatui" =>
        /\ (color.kind = "Color16" /\ color.c16 <= 15) =>
              /\ ret.value.c \in PaletteNames
              /\ \A d \in 0..15 : d # color.c16 => c16_to_ratatui_color(d) # ret.value
        /\ (color.kind = "Color16" /\ color.c16 > 15) => ret.value = Named("White")
        /\ color.kind = "Color256" => ret.value = Indexed(color.c256)
        /\ color.kind = "Rgb" => ret.value = RgbColor(color.r, color.g, color.b)

\* the 16-slot value 200 was converted, to white
C10_Witness ==
    /\ ret.fn = "ansi_color_to_ratatui"
    /\ color = Color16(200)
    /\ ret.value = Named("White")

(* C9: a color of any of the three shapes, serialized and stored as           *)
(* warning_color / critical_color, is read back by the resolver as the same  *)
(* color.                                                                    *)
C9_RoundTrip ==
    (/\ ret.fn = "get_color_for_utilization"
     /\ \/ selected_field = "WarningColor" /\ ret.args[2] = 65
        \/ selected_field = "CriticalColor" /\ ret.args[2] = 85)
        => ret.value = Some(color)

-----------------------------------------------------------------------------
(* The configuration cache under concurrent callers: get_cached_config step  *)
(* by step, the backing store changing and the cache being invalidated.      *)

NumThreads == 2
MaxCalls == 2
MaxInvalidations == 1
MaxStoreChanges == 1

Threads == 1..NumThreads
ResolverFns == {"get_thresholds_for_segment", "get_color_for_utilization", "should_be_bold"}
CacheUtilizations == {85}

\* two configurations a store can hold: the built-in theme's, and an edited one
ThemeConfig == Config(<<Segment(Usage5Hour, ThemeOptions)>>)
EditedConfig ==
    Config(<<Segment(Usage5Hour,
                     MkOptions(Some(JNumber(70)), Some(JNumber(90)),
                               Some(JObject([c256 |-> JNumber(220)])),
                               Some(JObject([c256 |-> JNumber(196)])),
                               Some(JBool(TRUE)), Some(JBool(FALSE))))>>)
StoreSamples == {Err, Ok(ThemeConfig), Ok(EditedConfig)}

\* what a call finds when it starts, kept to tell afterwards what it answered
\* from: a filled cache and the configuration in it, or a cache emptied by an
\* invalidation that no load has followed and what the store holds, or neither
NoStart == [found |-> "empty", basis |-> None]
StartOf ==
    IF invalidations >= 1 /\ loads = 0
    THEN [found |-> "invalidated", basis |-> ok(store)]
    ELSE IF cache # <<>> /\ IsSome(cache[1])
    THEN [found |-> "filled", basis |-> cache[1]]
    ELSE NoStart

Idle ==
    [pc |-> "idle", fn |-> "none", segment_id |-> "none", utilization |-> 0, phase |-> 0,
     cached1 |-> None, value |-> None, io |-> 0, failed |-> FALSE, start |-> NoStart,
     disturbed |-> FALSE]

CacheInit ==
    /\ store \in StoreSamples
    /\ cache = <<>>
    /\ lock = 0
    /\ threads = [t \in Threads |-> Idle]
    /\ calls = 0 /\ loads = 0 /\ invalidations = 0 /\ storeChanges = 0
    /\ ret = NoCall
    /\ observed = {}
    /\ AppIdle

\* the threads inside Config::load
Loading == {t \in DOMAIN threads : threads[t].pc = "loading"}

\* get_or_init, then cache_guard.is_none(): an unset cell is set to Mutex::new(None)
cache_guard_is_none == IF cache = <<>> THEN TRUE ELSE ~IsSome(cache[1])

\* a thread enters get_thresholds_for_segment, get_color_for_utilization or
\* should_be_bold and comes to the cache.lock() of get_cached_config
StartCall(t) ==
    /\ threads[t].pc = "idle"
    /\ calls < MaxCalls
    /\ calls' = calls + 1
    /\ \E fn \in ResolverFns, u \in CacheUtilizations :
          threads' = [threads EXCEPT ![t] =
              [pc |-> "lock", fn |-> fn, segment_id |-> Usage5Hour,
               utilization |-> IF fn = "get_thresholds_for_segment" THEN 0 ELSE u,
               phase |-> 1, cached1 |-> None, value |-> None, io |-> 0,
               failed |-> FALSE,
               start |-> IF t \in observed THEN StartOf ELSE NoStart,
               disturbed |-> FALSE]]
    /\ UNCHANGED <<store, cache, lock, loads, invalidations, storeChanges, ret, appVars, observed>>

\* cache.lock() finds the mutex held: the thread sleeps, through the holder's
\* Config::load if one is running
Block(t) ==
    /\ threads[t].pc = "lock"
    /\ lock # 0
    /\ threads' = [threads EXCEPT ![t].pc = "blocked",
                                  ![t].io = IF Loading # {} THEN @ + 1 ELSE @]
    /\ UNCHANGED <<store, cache, lock, calls, loads, invalidations, storeChanges, ret, appVars, observed>>

\* the thread after get_cached_config returned `cached` to it
after_get_cached_config(th, cached) ==
    LET failedNow == th.failed
    IN  IF th.phase = 1
        THEN IF th.fn = "get_thresholds_for_segment"
             THEN [th EXCEPT !.pc = "done",
                             !.value = get_thresholds_for_segment(cached, th.segment_id)]
             ELSE IF ~IsSome(cached) \/ ~IsSome(find_segment(Unwrap(cached), th.segment_id))
             THEN [th EXCEPT !.pc = "done", !.value = None]
             ELSE [th EXCEPT !.pc = "lock", !.phase = 2, !.cached1 = cached]
        ELSE [th EXCEPT !.pc = "done", !.cached1 = None,
                        !.value = IF th.fn = "get_color_for_utilization"
                                  THEN get_color_for_utilization(th.cached1, cached,
                                           th.segment_id, th.utilization)
                                  ELSE should_be_bold(th.cached1, cached,
                                           th.segment_id, th.utilization)]

\* the function goes on to its second get_cached_config, or returns: `ret` is
\* the call that returned last, with whether its own Config::load had failed
\* and, unless an invalidation (or, for a call on an invalidated cache, a change
\* of the store) fell into the call, what it found when it started and whether
\* a load has followed the invalidation
Resume(t, th) ==
    IF th.pc = "done"
    THEN /\ threads' = [threads EXCEPT ![t] = Idle]
         /\ ret' = [fn |-> th.fn,
                    args |-> IF th.fn = "get_thresholds_for_segment"
                             THEN <<th.segment_id>>
                             ELSE <<th.segment_id, th.utilization>>,
                    value |-> th.value, failed |-> th.failed,
                    start |-> IF th.disturbed THEN NoStart ELSE th.start,
                    reloaded |-> ~th.disturbed /\ th.start.found = "invalidated"
                                 /\ loads >= 1]
    ELSE /\ threads' = [threads EXCEPT ![t] = th]
         /\ UNCHANGED ret

\* get_cached_config finds the cache filled: clone it and drop the guard
CacheHit(t) ==
    /\ threads[t].pc \in {"lock", "blocked"}
    /\ lock = 0
    /\ ~cache_guard_is_none
    /\ \E th \in {after_get_cached_config(threads[t], cache[1])} : Resume(t, th)
    /\ UNCHANGED <<store, cache, lock, calls, loads, invalidations, storeChanges, appVars, observed>>

\* get_cached_config finds the cache empty: Config::load starts under the guard
BeginLoad(t) ==
    /\ threads[t].pc \in {"lock", "blocked"}
    /\ lock = 0
    /\ cache_guard_is_none
    /\ lock' = t
    /\ cache' = <<None>>
    /\ loads' = loads + 1
    /\ threads' = [x \in DOMAIN threads |->
          IF x = t THEN [threads[x] EXCEPT !.pc = "loading", !.io = @ + 1]
          ELSE IF threads[x].pc = "blocked" THEN [threads[x] EXCEPT !.io = @ + 1]
          ELSE threads[x]]
    /\ UNCHANGED <<store, calls, invalidations, storeChanges, ret, appVars, observed>>

\* Config::load returns: store its .ok(), clone it and drop the guard
EndLoad(t) ==
    /\ threads[t].pc = "loading"
    /\ cache' = <<ok(store)>>
    /\ lock' = 0
    /\ \E th \in {after_get_cached_config([threads[t] EXCEPT !.failed = @ \/ ~store.ok],
                                           ok(store))} : Resume(t, th)
    /\ UNCHANGED <<store, calls, loads, invalidations, storeChanges, appVars, observed>>

\* invalidate_config_cache leaving the cached configuration in place
Invalidate_KeepsCache ==
    /\ invalidations < MaxInvalidations
    /\ lock = 0
    /\ invalidations' = invalidations + 1
    /\ loads' = 0
    /\ threads' = [t \in DOMAIN threads |->
                      IF threads[t].pc = "idle" \/ t \notin observed THEN threads[t]
                      ELSE [threads[t] EXCEPT !.disturbed = TRUE]]
    /\ UNCHANGED <<store, cache, lock, calls, storeChanges, ret, appVars, observed>>

\* invalidate_config_cache, called by a test or by whoever changed the
\* configuration: nothing when the cell is unset, else None under the guard
Invalidate ==
    /\ invalidations < MaxInvalidations
    /\ lock = 0
    /\ cache' = IF cache = <<>> THEN <<>> ELSE <<None>>
    /\ invalidations' = invalidations + 1
    /\ loads' = 0
    /\ threads' = [t \in DOMAIN threads |->
                      IF threads[t].pc = "idle" \/ t \notin observed THEN threads[t]
                      ELSE [threads[t] EXCEPT !.disturbed = TRUE]]
    /\ UNCHANGED <<store, lock, calls, storeChanges, ret, appVars, observed>>

\* the configuration file is rewritten, removed or broken
StoreChange ==
    /\ storeChanges < MaxStoreChanges
    /\ \E c \in StoreSamples \ {store} : store' = c
    /\ storeChanges' = storeChanges + 1
    /\ threads' = [t \in DOMAIN threads |->
                      IF threads[t].start.found = "invalidated"
                      THEN [threads[t] EXCEPT !.disturbed = TRUE] ELSE threads[t]]
    /\ UNCHANGED <<cache, lock, calls, loads, invalidations, ret, appVars, observed>>

CacheNext ==
    \/ \E t \in Threads :
          StartCall(t) \/ Block(t) \/ CacheHit(t) \/ BeginLoad(t) \/ EndLoad(t)
    \/ Invalidate
    \/ StoreChange

CacheSpec == CacheInit /\ [][CacheNext]_vars

\* the same callers, the calls of the first thread followed
FollowedInit ==
    /\ store \in StoreSamples
    /\ cache = <<>>
    /\ lock = 0
    /\ threads = [t \in Threads |-> Idle]
    /\ calls = 0 /\ loads = 0 /\ invalidations = 0 /\ storeChanges = 0
    /\ ret = NoCall
    /\ observed = {1}
    /\ AppIdle

FollowedSpec == FollowedInit /\ [][CacheNext]_vars

(* C1: with no invalidate_config_cache in between, all resolver calls        *)
(* together load the configuration from the backing store at most once,      *)
(* also when that load fails.                                                *)
C1_LoadedAtMostOnce == loads <= 1

(* C2: callers that resolve concurrently on an empty cache never have two    *)
(* Config::load calls running at once, and no caller performs or waits for   *)
(* backing-store I/O more than once.                                         *)
C2_ExclusiveSingleIO ==
    /\ Cardinality(Loading) <= 1
    /\ invalidations = 0 => \A t \in DOMAIN threads : threads[t].io <= 1

(* C7: when loading the configuration fails, get_thresholds_for_segment,     *)
(* get_color_for_utilization and should_be_bold return None, for every       *)
(* segment and utilization, and the call completes.                          *)
C7_LoadFailureGivesNone ==
    /\ (ret # NoCall /\ ret.failed) => ret.value = None
    /\ \A t \in DOMAIN threads :
           (threads[t].pc = "loading" /\ ~store.ok) => ENABLED EndLoad(t)

\* a color call whose load failed has returned None
C7_Witness ==
    /\ ret # NoCall /\ ret.failed
    /\ ret.fn = "get_color_for_utilization"
    /\ ret.value = None

-----------------------------------------------------------------------------
(* Vocabulary of the resolver claims, read off the returned call.           *)

IsColorCall == ret.fn = "get_color_for_utilization"
IsBoldCall == ret.fn = "should_be_bold"
\* the call was about a segment the configuration holds
RetFound == ret # NoCall /\ IsSome(find_segment(Unwrap(cache[1]), ret.args[1]))
RetOptions == Unwrap(find_segment(Unwrap(cache[1]), ret.args[1])).options
RetU == ret.args[2]
RetWarning == threshold_option(RetOptions, "warning_threshold", 60)
RetCritical == threshold_option(RetOptions, "critical_threshold", 80)
Has(options, key) == key \in DOMAIN options
\* a color option of the wrong JSON shape: no object with a numeric c16 or c256 member
WrongShape(v) ==
    \/ v.t # "object"
    \/ \A k \in {"c16", "c256"} : k \notin DOMAIN v.f \/ v.f[k].t # "number"
AbsentOrWrongShape(options, key) == ~Has(options, key) \/ WrongShape(options[key])
AbsentOrNotBool(options, key) == ~Has(options, key) \/ options[key].t # "bool"
\* the configuration with the given keys removed from every segment's options
WithoutKeys(cached, keys) ==
    LET c == Unwrap(cached)
    IN  Some(Config([i \in 1..Len(c.segments) |->
            Segment(c.segments[i].id,
                    [k \in DOMAIN c.segments[i].options \ keys |-> c.segments[i].options[k]])]))

(* C3: at or above critical_threshold the color and the boldness are those of *)
(* critical_color / critical_bold, never those of warning_color /            *)
(* warning_bold, although the utilization is at or above warning_threshold   *)
(* too.                                                                      *)
C3_CriticalDominates ==
    (RetFound /\ (IsColorCall \/ IsBoldCall) /\ RetU >= RetCritical) =>
        /\ IsColorCall => ret.value = color_option(RetOptions, "critical_color")
        /\ IsBoldCall => ret.value = bool_option(RetOptions, "critical_bold")
        /\ (IsColorCall /\ color_option(RetOptions, "warning_color")
                            # color_option(RetOptions, "critical_color"))
              => ret.value # color_option(RetOptions, "warning_color")
        /\ (IsBoldCall /\ bool_option(RetOptions, "warning_bold")
                            # bool_option(RetOptions, "critical_bold"))
              => ret.value # bool_option(RetOptions, "warning_bold")

\* a color call above both thresholds whose two colors differ returned the critical one
C3_Witness ==
    /\ RetFound /\ IsColorCall
    /\ RetU >= RetCritical /\ RetU >= RetWarning /\ RetWarning < RetCritical
    /\ Has(RetOptions, "warning_color") /\ Has(RetOptions, "critical_color")
    /\ RetOptions["warning_color"] = JObject([c16 |-> JNumber(11)])
    /\ RetOptions["critical_color"] = JObject([c256 |-> JNumber(196)])
    /\ ret.value = Some(Color256(196))

(* C4 as stated: below warning_threshold both results are None, whatever the *)
(* colors and bold flags are.                                                *)
C4_BelowWarningAsStated ==
    (RetFound /\ (IsColorCall \/ IsBoldCall) /\ RetU < RetWarning) => ret.value = None

(* C4 as amended: below warning_threshold and below critical_threshold both  *)
(* results are None, whatever the colors and bold flags are.                 *)
C4_BelowBoth ==
    (RetFound /\ (IsColorCall \/ IsBoldCall) /\ RetU < RetWarning /\ RetU < RetCritical)
        => ret.value = None

\* a call below both thresholds on a segment with both colors and both flags set
C4_Witness ==
    /\ RetFound /\ IsBoldCall
    /\ RetU < RetWarning /\ RetU < RetCritical
    /\ IsSome(color_option(RetOptions, "warning_color"))
    /\ IsSome(color_option(RetOptions, "critical_color"))
    /\ bool_option(RetOptions, "warning_bold") = Some(TRUE)
    /\ bool_option(RetOptions, "critical_bold") = Some(TRUE)
    /\ ret.value = None

(* C5: at or above critical_threshold an absent or malformed critical_color  *)
(* (critical_bold) gives None and not the warning value, and each axis is    *)
(* decided without the other axis' options.                                  *)
C5_NoFallThrough ==
    (RetFound /\ (IsColorCall \/ IsBoldCall) /\ RetU >= RetCritical) =>
        /\ (IsColorCall /\ AbsentOrWrongShape(RetOptions, "critical_color"))
              => ret.value = None
        /\ (IsBoldCall /\ AbsentOrNotBool(RetOptions, "critical_bold"))
              => ret.value = None
        /\ IsColorCall =>
              ret.value = get_color_for_utilization(
                              WithoutKeys(cache[1], {"warning_bold", "critical_bold"}),
                              cache[1], ret.args[1], RetU)
        /\ IsBoldCall =>
              ret.value = should_be_bold(
                              WithoutKeys(cache[1], {"warning_color", "critical_color"}),
                              cache[1], ret.args[1], RetU)

\* critical_color is missing, warning_color and critical_bold are set: no color
C5_Witness ==
    /\ RetFound /\ IsColorCall /\ RetU >= RetCritical /\ RetU >= RetWarning
    /\ ~Has(RetOptions, "critical_color")
    /\ IsSome(color_option(RetOptions, "warning_color"))
    /\ bool_option(RetOptions, "critical_bold") = Some(TRUE)
    /\ ret.value = None

InWarningBand ==
    RetFound /\ (IsColorCall \/ IsBoldCall) /\ RetWarning <= RetU /\ RetU < RetCritical

(* C6 as stated: between the thresholds the color is the configured warning  *)
(* color (u=65, 60/80, {"c16":11} gives the 16-slot value 11), and with      *)
(* warning_bold false or absent the boldness is None.                        *)
C6_WarningBandAsStated ==
    /\ (InWarningBand /\ IsColorCall)
          => ret.value = color_option(RetOptions, "warning_color")
    /\ (InWarningBand /\ IsBoldCall
          /\ (~Has(RetOptions, "warning_bold") \/ RetOptions["warning_bold"] = JBool(FALSE)))
          => ret.value = None

(* C6 as amended: between the thresholds the color is the configured warning *)
(* color (u=65, 60/80, {"c16":11} gives the 16-slot value 11); the boldness  *)
(* is None when warning_bold is absent and the override Some(false) when     *)
(* warning_bold is false.                                                    *)
C6_WarningBand ==
    /\ (InWarningBand /\ IsColorCall)
          => /\ ret.value = color_option(RetOptions, "warning_color")
             /\ (Has(RetOptions, "warning_color")
                  /\ RetOptions["warning_color"] = JObject([c16 |-> JNumber(11)]))
                   => ret.value = Some(Color16(11))
    /\ (InWarningBand /\ IsBoldCall)
          => /\ ~Has(RetOptions, "warning_bold") => ret.value = None
             /\ (Has(RetOptions, "warning_bold") /\ RetOptions["warning_bold"] = JBool(FALSE))
                   => ret.value = Some(FALSE)

\* the scenario: utilization 65 under 60/80 with warning_bold false
C6_Witness ==
    /\ RetFound /\ IsBoldCall /\ RetU = 65 /\ RetWarning = 60 /\ RetCritical = 80
    /\ RetOptions = ThemeOptions
    /\ ret.value = Some(FALSE)

\* a color option as the configuration format defines it: an object with exactly
\* one of {"c16": 0..15}, {"c256": 0..255}, {"r","g","b": 0..255}
InRange(v, top) == v.t = "number" /\ v.repr = "PosInt" /\ v.n <= top
WellFormedColor(v) ==
    /\ v.t = "object"
    /\ \/ DOMAIN v.f = {"c16"} /\ InRange(v.f["c16"], 15)
       \/ DOMAIN v.f = {"c256"} /\ InRange(v.f["c256"], 255)
       \/ DOMAIN v.f = {"r", "g", "b"} /\ \A k \in {"r", "g", "b"} : InRange(v.f[k], 255)
MalformedOption(options, key) ==
    /\ Has(options, key)
    /\ IF key \in {"warning_threshold", "critical_threshold"}
       THEN options[key].t # "number"
       ELSE ~WellFormedColor(options[key])
\* the returned call made again on another configuration
Recomputed(cached) ==
    CASE ret.fn = "get_thresholds_for_segment" ->
            get_thresholds_for_segment(cached, ret.args[1])
      [] ret.fn = "get_color_for_utilization" ->
            get_color_for_utilization(cached, cached, ret.args[1], ret.args[2])
      [] ret.fn = "should_be_bold" ->
            should_be_bold(cached, cached, ret.args[1], ret.args[2])

(* C8: a malformed option behaves like an absent one: a threshold that is no *)
(* number falls back to 60 / 80, a color of the wrong shape or with c16 /    *)
(* c256 out of range gives None, so every result equals the result for the   *)
(* same options without the malformed key.                                   *)
C8_MalformedAsAbsent ==
    RetFound =>
        \A key \in {"warning_threshold", "critical_threshold",
                    "warning_color", "critical_color"} :
            MalformedOption(RetOptions, key) =>
                /\ ret.value = Recomputed(WithoutKeys(cache[1], {key}))
                /\ (ret.fn = "get_thresholds_for_segment" /\ key = "warning_threshold")
                      => Unwrap(ret.value)[1] = 60
                /\ (ret.fn = "get_thresholds_for_segment" /\ key = "critical_threshold")
                      => Unwrap(ret.value)[2] = 80

-----------------------------------------------------------------------------
(* The two panel heights of ui/app.rs that follow the wrap rule, and the     *)
(* wrap engine and the two applied to lists of widths.                       *)

\* App::calculate_theme_selector_height without its first_line exception
theme_selector_part_NoFirstLine(st, theme_part, i, content_width) ==
    LET separator == IF i = 0 THEN 0 ELSE 2
        part_with_sep == separator + theme_part
        would_fit == st.current_line_length + part_with_sep <= content_width
    IN  IF would_fit
        THEN [st EXCEPT !.current_line_length = @ + part_with_sep, !.first_line = FALSE]
        ELSE [st EXCEPT !.line_count = @ + 1, !.current_line_length = theme_part]

\* the body of the loop of App::calculate_theme_selector_height, for the
\* i-th theme (from 0) whose "[ ] name" part is theme_part bytes long
theme_selector_part(st, theme_part, i, content_width) ==
    LET separator == IF i = 0 THEN 0 ELSE 2
        part_with_sep == separator + theme_part
        would_fit == st.current_line_length + part_with_sep <= content_width
    IN  IF would_fit \/ st.first_line
        THEN [st EXCEPT !.current_line_length = @ + part_with_sep, !.first_line = FALSE]
        ELSE [st EXCEPT !.line_count = @ + 1, !.current_line_length = theme_part]

RECURSIVE theme_selector_pass(_, _, _, _)
theme_selector_pass(st, theme_parts, i, content_width) ==
    IF i >= Len(theme_parts) THEN st
    ELSE theme_selector_pass(theme_selector_part(st, theme_parts[i + 1], i, content_width),
                             theme_parts, i + 1, content_width)

\* line_count when the loop of calculate_theme_selector_height ends
theme_selector_line_count(theme_parts, content_width) ==
    theme_selector_pass([line_count |-> 1, current_line_length |-> 0, first_line |-> TRUE],
                        theme_parts, 0, content_width).line_count

calculate_theme_selector_height(theme_parts, total_width) ==
    theme_selector_line_count(theme_parts, saturating_sub(total_width, 2)) + 2

\* the body of the loop of App::calculate_help_height, for the i-th item (from 0)
help_item(st, item_width, i, content_width) ==
    LET needs_separator == i > 0 /\ st.current_width > 0
        separator_width == IF needs_separator THEN 2 ELSE 0
        total_width == item_width + separator_width
    IN  IF st.current_width + total_width > content_width
        THEN [lines_needed |-> st.lines_needed + 1, current_width |-> item_width]
        ELSE [lines_needed |-> st.lines_needed,
              current_width |-> st.current_width + separator_width + item_width]

RECURSIVE help_pass(_, _, _, _)
help_pass(st, help_items, i, content_width) ==
    IF i >= Len(help_items) THEN st
    ELSE help_pass(help_item(st, help_items[i + 1], i, content_width),
                   help_items, i + 1, content_width)

\* lines_needed when the loop of calculate_help_height ends
help_lines_needed(help_items, content_width) ==
    help_pass([lines_needed |-> 1, current_width |-> 0], help_items, 0, content_width)
        .lines_needed

clamp(x, min, max) == IF x < min THEN min ELSE IF x > max THEN max ELSE x

calculate_help_height(help_items, status_message, total_width) ==
    clamp(help_lines_needed(help_items, saturating_sub(total_width, 2))
          + (IF IsSome(status_message) THEN 1 ELSE 0) + 2, 3, 6)

\* the widths the units, theme names and help items are drawn from, the widths
\* a line may have, and the terminal widths that leave those after the borders
UnitWidths == {3, 10, 12, 20}
WidthLists == UNION {[1..n -> UnitWidths] : n \in 0..MaxUnits}
SeparatorWidths == {1, 2}
MaxWidths == {0, 5, 12, 15, 22, 23, 24, 30}
TotalWidths == {0, 1} \cup {w + 2 : w \in MaxWidths}

WrapInit ==
    /\ ret = NoCall
    /\ ResolverIdle /\ AppIdle

CallWrap ==
    /\ ret = NoCall
    /\ \E widths \in WidthLists, separator \in SeparatorWidths, max_width \in MaxWidths :
          ret' = Returned("wrap", <<Units(widths), separator, max_width>>,
                          wrap(Units(widths), separator, max_width))
    /\ UNCHANGED <<cacheVars, appVars>>

CallThemeSelectorHeight ==
    /\ ret = NoCall
    /\ \E theme_parts \in WidthLists, total_width \in TotalWidths :
          ret' = Returned("calculate_theme_selector_height", <<theme_parts, total_width>>,
                          calculate_theme_selector_height(theme_parts, total_width))
    /\ UNCHANGED <<cacheVars, appVars>>

CallHelpHeight ==
    /\ ret = NoCall
    /\ \E help_items \in WidthLists, status_message \in {None, Some("saved")},
          total_width \in TotalWidths :
          ret' = Returned("calculate_help_height",
                          <<help_items, status_message, total_width>>,
                          calculate_help_height(help_items, status_message, total_width))
    /\ UNCHANGED <<cacheVars, appVars>>

\* the numbers of lines a preview is asked its height for: the small ones and
\* the ones around the end of the u16 range
LineCounts == 0..10 \cup {U16 - 3, U16 - 2, U16 - 1, U16, U16 + 7}

CallCalculateHeight ==
    /\ ret = NoCall
    /\ \E len \in LineCounts :
          ret' = Returned("calculate_height", <<len>>, height_of_lines(len))
    /\ UNCHANGED <<cacheVars, appVars>>

WrapNext ==
    CallWrap \/ CallThemeSelectorHeight \/ CallHelpHeight \/ CallCalculateHeight \/ Drop

WrapSpec == WrapInit /\ [][WrapNext]_vars

IsWrapCall == ret.fn = "wrap"
RECURSIVE Flatten(_)
Flatten(lines) == IF lines = <<>> THEN <<>> ELSE Head(lines) \o Flatten(Tail(lines))

(* C11: for every list of units and every max_width, the lines the wrap      *)
(* returns, one after the other, are the list of units: every unit once, in  *)
(* its place.                                                                *)
C11_WrapKeepsUnits ==
    IsWrapCall => Flatten(ret.value.lines) = ret.args[1]

\* four units were wrapped into more than one line, one line holding two of them
C11_Witness ==
    /\ IsWrapCall
    /\ Len(ret.args[1]) = 4
    /\ ret.value.line_count > 1
    /\ \E k \in 1..Len(ret.value.lines) : Len(ret.value.lines[k]) = 2

IsThemeSelectorCall == ret.fn = "calculate_theme_selector_height"
IsHelpCall == ret.fn = "calculate_help_height"

(* C12: with one unit or more the wrap returns no empty line and no more     *)
(* lines than units, a unit wider than max_width stands alone on its line,   *)
(* and the theme picker counts no more lines than it has themes; all this    *)
(* also when max_width is below every width.                                 *)
C12_NoEmptyLine ==
    /\ (IsWrapCall /\ ret.args[1] # <<>>) =>
          /\ \A k \in 1..Len(ret.value.lines) : ret.value.lines[k] # <<>>
          /\ ret.value.line_count <= Len(ret.args[1])
          /\ \A k \in 1..Len(ret.value.lines) :
                (\E j \in 1..Len(ret.value.lines[k]) :
                    ret.value.lines[k][j].width > ret.args[3])
                => Len(ret.value.lines[k]) = 1
    /\ (IsThemeSelectorCall /\ ret.args[1] # <<>>) =>
          /\ ret.value - 2 >= 1
          /\ ret.value - 2 <= Len(ret.args[1])

\* three units, each wider than max_width, came out as three lines
C12_Witness ==
    /\ IsWrapCall
    /\ Len(ret.args[1]) = 3
    /\ \A i \in 1..3 : ret.args[1][i].width > ret.args[3]
    /\ ret.value.line_count = 3

RECURSIVE SumWidths(_)
SumWidths(line) == IF line = <<>> THEN 0 ELSE Head(line).width + SumWidths(Tail(line))
\* the width of a line: its units and one separator between neighbours
LineWidth(line, separator) == SumWidths(line) + separator * (Len(line) - 1)

(* C13: every line of two or more units is at most max_width wide, separators *)
(* included; a unit opens a new line only when the line before, a separator   *)
(* and the unit together exceed max_width; units of width 12 and 10 with a    *)
(* one-column separator give one line at width 30 and two lines of one unit   *)
(* at width 15, and the theme picker counts one and two lines for them.       *)
C13_GreedyFit ==
    /\ IsWrapCall =>
          LET lines == ret.value.lines
              separator == ret.args[2]
              max_width == ret.args[3]
          IN  /\ \A k \in 1..Len(lines) :
                    Len(lines[k]) >= 2 => LineWidth(lines[k], separator) <= max_width
              /\ \A k \in 2..Len(lines) :
                    LineWidth(lines[k - 1], separator) + separator + lines[k][1].width
                        > max_width
              /\ (ret.args[1] = Units(<<12, 10>>) /\ separator = 1) =>
                    /\ max_width = 30 => lines = <<Units(<<12, 10>>)>>
                    /\ max_width = 15 =>
                          lines = <<<<RenderUnit(1, 12)>>, <<RenderUnit(2, 10)>>>>
    /\ (IsThemeSelectorCall /\ ret.args[1] = <<12, 10>>) =>
          /\ ret.args[2] = 32 => ret.value = 1 + 2
          /\ ret.args[2] = 17 => ret.value = 2 + 2

\* widths 12 and 10 at max_width 15 with a one-column separator: two lines
C13_Witness ==
    /\ IsWrapCall
    /\ ret.args = <<Units(<<12, 10>>), 1, 15>>
    /\ ret.value.line_count = 2

\* the number of lines the wrap gives for these widths with a two-column
\* separator, in a panel total_width wide with its two border columns
WrapLineCount(widths, total_width) ==
    wrap(Units(widths), 2, saturating_sub(total_width, 2)).line_count

(* C14: for every list of item widths and every width, the line count of the *)
(* theme picker and the line count of the help legend are the number of      *)
(* lines the wrap gives for the same widths with a two-column separator.     *)
C14_PanelsFollowWrap ==
    /\ IsThemeSelectorCall =>
          theme_selector_line_count(ret.args[1], saturating_sub(ret.args[2], 2))
              = WrapLineCount(ret.args[1], ret.args[2])
    /\ IsHelpCall =>
          help_lines_needed(ret.args[1], saturating_sub(ret.args[3], 2))
              = WrapLineCount(ret.args[1], ret.args[3])


-----------------------------------------------------------------------------
(* The editor of ui/app.rs: the segment list and the settings panel, with    *)
(* the preview every handler rebuilds.  The status message and the popups    *)
(* (icon selector, color picker, name input, separator editor) are left out; *)
(* Enter on a field that opens a popup leaves the configuration as it is.    *)

DEFAULT_SEGMENT_FIELD_COUNT == 7
THRESHOLD_SEGMENT_FIELD_COUNT == 13
GIT_SEGMENT_FIELD_COUNT == 9

\* the segment under the cursor, as config.segments.get(selected_segment) gives it
selected_get(cfg, sel) ==
    IF sel < Len(cfg.segments) THEN Some(cfg.segments[sel + 1]) ELSE None

is_usage_segment(cfg, sel) ==
    LET s == selected_get(cfg, sel)
    IN  IsSome(s) /\ Unwrap(s).id \in {Usage5Hour, Usage7Day, "ContextWindow"}
is_git_segment(cfg, sel) ==
    LET s == selected_get(cfg, sel)
    IN  IsSome(s) /\ Unwrap(s).id = "Git"

\* move_selection: the index of the selected field
current_field(fld, is_usage, is_git) ==
    CASE fld = "Enabled" -> 0 [] fld = "Icon" -> 1 [] fld = "IconColor" -> 2
      [] fld = "TextColor" -> 3 [] fld = "BackgroundColor" -> 4
      [] fld = "TextStyle" -> 5 [] fld = "WarningThreshold" -> 6
      [] fld = "CriticalThreshold" -> 7 [] fld = "WarningColor" -> 8
      [] fld = "CriticalColor" -> 9 [] fld = "WarningBold" -> 10
      [] fld = "CriticalBold" -> 11 [] fld = "ShowSha" -> 6
      [] fld = "ShowDirtyCount" -> 7
      [] fld = "Options" -> IF is_usage THEN 12 ELSE IF is_git THEN 8 ELSE 6

\* move_selection: the field at an index
new_field_selection(new_field, is_usage, is_git) ==
    CASE new_field = 0 -> "Enabled" [] new_field = 1 -> "Icon"
      [] new_field = 2 -> "IconColor" [] new_field = 3 -> "TextColor"
      [] new_field = 4 -> "BackgroundColor" [] new_field = 5 -> "TextStyle"
      [] new_field = 6 /\ is_usage -> "WarningThreshold"
      [] new_field = 7 /\ is_usage -> "CriticalThreshold"
      [] new_field = 8 /\ is_usage -> "WarningColor"
      [] new_field = 9 /\ is_usage -> "CriticalColor"
      [] new_field = 10 /\ is_usage -> "WarningBold"
      [] new_field = 11 /\ is_usage -> "CriticalBold"
      [] new_field = 12 /\ is_usage -> "Options"
      [] new_field = 6 /\ ~is_usage /\ is_git -> "ShowSha"
      [] new_field = 7 /\ ~is_usage /\ is_git -> "ShowDirtyCount"
      [] new_field = 8 /\ ~is_usage /\ is_git -> "Options"
      [] new_field = 6 /\ ~is_usage /\ ~is_git -> "Options"
      [] OTHER -> "Enabled"

\* move_selection in the settings panel: the selected field afterwards
move_field(cfg, sel, fld, delta) ==
    LET is_usage == is_usage_segment(cfg, sel)
        is_git == is_git_segment(cfg, sel)
        field_count == IF is_usage THEN THRESHOLD_SEGMENT_FIELD_COUNT
                       ELSE IF is_git THEN GIT_SEGMENT_FIELD_COUNT
                       ELSE DEFAULT_SEGMENT_FIELD_COUNT
        new_field == Min(Max(current_field(fld, is_usage, is_git) + delta, 0),
                         field_count - 1)
    IN  new_field_selection(new_field, is_usage, is_git)

\* HashMap::insert on a segment's options
options_insert(options, key, v) ==
    [k \in DOMAIN options \cup {key} |-> IF k = key THEN v ELSE options[k]]

\* options.get(key).and_then(|v| v.as_bool()).unwrap_or(default)
bool_option_or(options, key, default) ==
    LET v == options_get(options, key)
        b == IF IsSome(v) THEN as_bool(Unwrap(v)) ELSE None
    IN  IF IsSome(b) THEN Unwrap(b) ELSE default

\* toggle_current, WarningThreshold: the next value of the cycle
next_warning_threshold(current) ==
    CASE current < 50 -> 50 [] current = 50 -> 60 [] current = 60 -> 70
      [] current = 70 -> 80 [] OTHER -> 40

\* toggle_current, CriticalThreshold: the next value of the cycle
next_critical_threshold(current) ==
    CASE current < 70 -> 70 [] current = 70 -> 80 [] current = 80 -> 90
      [] current = 90 -> 95 [] OTHER -> 60

\* a toggled option of the selected segment
toggle_option(segment, key, default) ==
    [segment EXCEPT !.options =
        options_insert(@, key, JBool(~bool_option_or(segment.options, key, default)))]

\* toggle_current: the selected segment afterwards
toggle_segment(segment, panel, fld) ==
    IF panel = "SegmentList" \/ fld = "Enabled"
    THEN [segment EXCEPT !.enabled = ~@]
    ELSE CASE fld = "TextStyle" -> [segment EXCEPT !.styles.text_bold = ~@]
           [] fld = "WarningThreshold" ->
                [segment EXCEPT !.options = options_insert(@, "warning_threshold",
                    JNumber(next_warning_threshold(
                        threshold_option(segment.options, "warning_threshold", 60))))]
           [] fld = "CriticalThreshold" ->
                [segment EXCEPT !.options = options_insert(@, "critical_threshold",
                    JNumber(next_critical_threshold(
                        threshold_option(segment.options, "critical_threshold", 80))))]
           [] fld = "WarningBold" -> toggle_option(segment, "warning_bold", FALSE)
           [] fld = "CriticalBold" -> toggle_option(segment, "critical_bold", TRUE)
           [] fld = "ShowSha" -> toggle_option(segment, "show_sha", FALSE)
           [] fld = "ShowDirtyCount" -> toggle_option(segment, "show_dirty_count", FALSE)
           [] OTHER -> segment

\* the arms of toggle_current that end with update_preview
toggle_updates_preview(panel, fld) ==
    panel = "SegmentList"
    \/ fld \in {"Enabled", "TextStyle", "WarningThreshold", "CriticalThreshold",
                "WarningBold", "CriticalBold", "ShowSha", "ShowDirtyCount"}

\* Vec::swap writing one of the two places only
swap_Overwrites(segments, a, b) ==
    [segments EXCEPT ![a + 1] = segments[b + 1]]

\* Vec::swap on the segment list (indices from 0)
swap(segments, a, b) ==
    [segments EXCEPT ![a + 1] = segments[b + 1], ![b + 1] = segments[a + 1]]

\* the widths the terminal is drawn at
TerminalWidths == {20, 80}

\* the configurations the editor is opened on
EditorConfigs ==
    {Config(<<model_segment, directory_segment, cost_segment>>),
     Config(<<usage_5hour_segment>>)}

\* the record of the last update of the preview
Updated(cfg, width) == Returned("update_preview_with_width", <<cfg, width>>, None)

\* App::new
EditorInit ==
    /\ config \in EditorConfigs
    /\ selected_segment = 0
    /\ selected_panel = "SegmentList"
    /\ selected_field = "Enabled"
    /\ preview = update_preview(PreviewNew, config)
    /\ ret = Updated(config, 80)
    /\ color = NoColor
    /\ ResolverIdle /\ RunOff

\* usize::MAX, 2^64 - 1 on a 64-bit target; the integers here end at 2^31 - 1,
\* which stands for it
USIZE_MAX == 2147483647

\* a - b on usize: below zero a build with overflow checks panics (Err) and a
\* build without them wraps around
usize_sub(a, b) == IF a >= b THEN {Ok(a - b)} ELSE {Err, Ok(USIZE_MAX - (b - a - 1))}

\* `as i32` on a usize and `as usize` on an i32: the same bits
as_i32(n) == IF n > USIZE_MAX \div 2 THEN (n - USIZE_MAX) - 1 ELSE n
as_usize(i) == IF i < 0 THEN USIZE_MAX - ((0 - i) - 1) ELSE i

\* Tab
SwitchPanel ==
    /\ selected_panel' = IF selected_panel = "SegmentList" THEN "Settings"
                         ELSE "SegmentList"
    /\ UNCHANGED <<cacheVars, ret, config, selected_segment, selected_field, color, preview,
                   panicked>>

\* Up and Down
MoveSelection(delta) ==
    /\ IF selected_panel = "SegmentList"
       THEN /\ \E last \in usize_sub(Len(config.segments), 1) :
                  IF last.ok
                  THEN /\ selected_segment' =
                             as_usize(Min(Max(as_i32(selected_segment) + delta, 0),
                                          as_i32(last.v)))
                       /\ UNCHANGED panicked
                  ELSE /\ panicked' = TRUE
                       /\ UNCHANGED selected_segment
            /\ UNCHANGED selected_field
       ELSE /\ selected_field' = move_field(config, selected_segment, selected_field, delta)
            /\ UNCHANGED <<selected_segment, panicked>>
    /\ UNCHANGED <<cacheVars, ret, config, selected_panel, color, preview>>

\* Enter
ToggleCurrent ==
    /\ IF IsSome(selected_get(config, selected_segment))
          /\ toggle_updates_preview(selected_panel, selected_field)
       THEN /\ config' = Config([config.segments EXCEPT ![selected_segment + 1] =
                                    toggle_segment(@, selected_panel, selected_field)])
            /\ preview' = update_preview(preview, config')
            /\ ret' = Updated(config', 80)
       ELSE UNCHANGED <<config, preview, ret>>
    /\ UNCHANGED <<cacheVars, selected_segment, selected_panel, selected_field, color,
                   panicked>>

\* Shift+Up; Vec::swap panics on an index outside the list
MoveSegmentUp ==
    /\ IF selected_panel = "SegmentList" /\ selected_segment > 0
       THEN IF selected_segment < Len(config.segments)
            THEN /\ config' = Config(swap(config.segments, selected_segment,
                                          selected_segment - 1))
                 /\ selected_segment' = selected_segment - 1
                 /\ preview' = update_preview(preview, config')
                 /\ ret' = Updated(config', 80)
                 /\ UNCHANGED panicked
            ELSE /\ panicked' = TRUE
                 /\ UNCHANGED <<config, selected_segment, preview, ret>>
       ELSE UNCHANGED <<config, selected_segment, preview, ret, panicked>>
    /\ UNCHANGED <<cacheVars, selected_panel, selected_field, color>>

\* Shift+Down
MoveSegmentDown ==
    /\ IF selected_panel = "SegmentList"
       THEN \E last \in usize_sub(Len(config.segments), 1) :
               IF last.ok /\ selected_segment < last.v
                  /\ selected_segment + 1 < Len(config.segments)
               THEN /\ config' = Config(swap(config.segments, selected_segment,
                                             selected_segment + 1))
                    /\ selected_segment' = selected_segment + 1
                    /\ preview' = update_preview(preview, config')
                    /\ ret' = Updated(config', 80)
                    /\ UNCHANGED panicked
               ELSE /\ panicked' = (panicked \/ ~last.ok \/ selected_segment < last.v)
                    /\ UNCHANGED <<config, selected_segment, preview, ret>>
       ELSE UNCHANGED <<config, selected_segment, preview, ret, panicked>>
    /\ UNCHANGED <<cacheVars, selected_panel, selected_field, color>>

\* App::ui: a frame drawn at a terminal width
Draw ==
    /\ \E width \in TerminalWidths :
          /\ preview' = update_preview_with_width(preview, config, width)
          /\ ret' = Updated(config, width)
    /\ UNCHANGED <<cacheVars, config, selected_segment, selected_panel, selected_field, color,
                   panicked>>

EditorNext ==
    \/ SwitchPanel /\ UNCHANGED runVars
    \/ \E delta \in {-1, 1} : MoveSelection(delta) /\ UNCHANGED runVars
    \/ ToggleCurrent /\ UNCHANGED runVars
    \/ MoveSegmentUp /\ UNCHANGED runVars
    \/ MoveSegmentDown /\ UNCHANGED runVars
    \/ Draw /\ UNCHANGED runVars

EditorSpec == EditorInit /\ [][EditorNext]_vars

EnableOrReorder ==
    \/ ToggleCurrent /\ (selected_panel = "SegmentList" \/ selected_field = "Enabled")
    \/ MoveSegmentUp
    \/ MoveSegmentDown

\* the segment with its enabled flag put aside
WithoutEnabled(segment) == [segment EXCEPT !.enabled = TRUE]

\* C16: a step that enables, disables or reorders leaves a permutation of the
\* segment list: the same segments, each once, nothing but 'enabled' changed
C16_PermutationOfSegments ==
    [][EnableOrReorder =>
          /\ Len(config'.segments) = Len(config.segments)
          /\ \E p \in Permutations(1..Len(config.segments)) :
                \A i \in 1..Len(config.segments) :
                   WithoutEnabled(config'.segments[p[i]])
                       = WithoutEnabled(config.segments[i])]_vars

\* the cost segment moved to the front and enabled, the segment behind it disabled
C16_Witness ==
    /\ Len(config.segments) = 3
    /\ config.segments[1].id = "Cost" /\ config.segments[1].enabled
    /\ ~config.segments[2].enabled


\* the list is the enabled segments of the configuration, in configuration order
IsEnabledSubsequence(segments_data, cfg) ==
    \E f \in [1..Len(segments_data) -> 1..Len(cfg.segments)] :
       /\ \A i, j \in 1..Len(segments_data) : i < j => f[i] < f[j]
       /\ {f[i] : i \in 1..Len(segments_data)}
             = {k \in 1..Len(cfg.segments) : cfg.segments[k].enabled}
       /\ \A i \in 1..Len(segments_data) : segments_data[i][1] = cfg.segments[f[i]]

\* the ids the preview shows, in the order of its flat line
RenderedIds(pv) == [i \in 1..Len(pv.preview_cache) |-> pv.preview_cache[i].id]

\* the ids of the enabled segments, in configuration order
EnabledIds(cfg) ==
    LET enabled == SelectSeq(cfg.segments, LAMBDA segment_config : segment_config.enabled)
    IN  [i \in 1..Len(enabled) |-> enabled[i].id]

\* a move that took place
Moved == (MoveSegmentUp \/ MoveSegmentDown) /\ config' # config

\* C17: what is handed to composition is the enabled segments in configuration
\* order, and the preview a move leaves behind shows the swapped segments in
\* their new order, on the flat line and on the wrapped lines
C17_ConfigurationOrder ==
    /\ [](IsEnabledSubsequence(generate_mock_segments_data(config), config))
    /\ [][Moved =>
            /\ RenderedIds(preview') = EnabledIds(config')
            /\ [i \in 1..Len(Flatten(preview'.preview_text)) |->
                   Flatten(preview'.preview_text)[i].id] = EnabledIds(config')
            /\ \E i \in 1..(Len(config.segments) - 1) :
                  config'.segments = swap(config.segments, i - 1, i)]_vars

\* the directory segment moved in front of the model segment, both enabled, a
\* disabled segment left out, and the preview showing the two in the new order
C17_Witness ==
    /\ RenderedIds(preview) = <<"Directory", "Model">>
    /\ Len(config.segments) = 3
    /\ \E i \in 1..3 : ~config.segments[i].enabled


-----------------------------------------------------------------------------
(* The overrides of the two usage segments: what usage_5hour.rs and          *)
(* usage_7day.rs put into the metadata, next to what the preview's mock data *)
(* carries.                                                                  *)

\* Usage5HourSegment / Usage7DaySegment::get_color_for_utilization, on the
\* outcome of Config::load()
usage_get_color_for_utilization(loaded, segment_id, utilization) ==
    LET seg == IF loaded.ok THEN find_segment(loaded.v, segment_id) ELSE None
        options == Unwrap(seg).options
        warning_threshold == threshold_option(options, "warning_threshold", 60)
        critical_threshold == threshold_option(options, "critical_threshold", 80)
    IN  IF ~IsSome(seg) THEN None
        ELSE IF utilization >= critical_threshold THEN color_option(options, "critical_color")
        ELSE IF utilization >= warning_threshold THEN color_option(options, "warning_color")
        ELSE None

\* Usage7DaySegment::should_be_bold, on the outcome of Config::load()
usage_should_be_bold(loaded, segment_id, utilization) ==
    LET seg == IF loaded.ok THEN find_segment(loaded.v, segment_id) ELSE None
        options == Unwrap(seg).options
        warning_threshold == threshold_option(options, "warning_threshold", 60)
        critical_threshold == threshold_option(options, "critical_threshold", 80)
    IN  IF ~IsSome(seg) THEN None
        ELSE IF utilization >= critical_threshold THEN bool_option(options, "critical_bold")
        ELSE IF utilization >= warning_threshold THEN bool_option(options, "warning_bold")
        ELSE None

\* bool::to_string
bool_to_string(b) == IF b THEN "true" ELSE "false"

OverrideKeys == {"text_color_override", "text_bold_override"}

\* collect: the overrides it inserts into the metadata; the 5-hour segment has
\* no bold override
collect_overrides(loaded, segment_id, utilization) ==
    LET color_override == usage_get_color_for_utilization(loaded, segment_id, utilization)
        should_bold == IF segment_id = Usage7Day
                       THEN usage_should_be_bold(loaded, segment_id, utilization)
                       ELSE None
        present == {k \in OverrideKeys :
                       \/ k = "text_color_override" /\ IsSome(color_override)
                       \/ k = "text_bold_override" /\ IsSome(should_bold)}
    IN  [k \in present |->
            IF k = "text_color_override"
            THEN serialize_ansi_color_to_json(Unwrap(color_override))
            ELSE bool_to_string(Unwrap(should_bold))]

\* the overrides in the metadata of the preview's mock data
mock_overrides(segment_config, utilization) ==
    LET metadata == usage_mock(segment_config, "utilization", utilization,
                               Str("", 0), Str("", 0)).metadata
    IN  [k \in DOMAIN metadata \cap OverrideKeys |-> metadata[k]]

\* the options of a usage segment: the samples and the built-in themes' own
OverrideOptions == OptionSamples \cup {ThemeOptions}

\* the usage segment with these options, and the configuration holding it
usage_segment(segment_id, options) ==
    SegmentConfig(segment_id, TRUE,
                  [icon |-> Some(Color16(14)), text |-> Some(Color16(14)), background |-> None],
                  options)

OverrideInit == ret = NoCall /\ ResolverIdle /\ AppIdle

\* the statusline collects a usage segment, the configuration file holding the
\* segment with these options
Collect ==
    /\ ret = NoCall
    /\ \E segment_id \in SegmentIds, options \in OverrideOptions, u \in UtilizationSamples :
          ret' = Returned("collect", <<segment_id, options, u>>,
                          collect_overrides(Ok(Config(<<usage_segment(segment_id, options)>>)),
                                            segment_id, u))
    /\ UNCHANGED <<cacheVars, appVars>>

\* the preview builds the mock data of a usage segment with these options
MockData ==
    /\ ret = NoCall
    /\ \E segment_id \in SegmentIds, options \in OverrideOptions, u \in UtilizationSamples :
          ret' = Returned("generate_mock_segments_data", <<segment_id, options, u>>,
                          mock_overrides(usage_segment(segment_id, options), u))
    /\ UNCHANGED <<cacheVars, appVars>>

OverrideNext == Collect \/ MockData \/ Drop

OverrideSpec == OverrideInit /\ [][OverrideNext]_vars

\* C18: for every usage segment, options and utilization the overrides the
\* collaborator embeds are the overrides the preview's mock data carries
C18_PreviewMatchesCollaborator ==
    ret.fn = "collect" =>
        ret.value = mock_overrides(usage_segment(ret.args[1], ret.args[2]), ret.args[3])


-----------------------------------------------------------------------------
(* Invalidation and staleness of the configuration cache, read off the call  *)
(* that returned last.                                                       *)

IsResolverCall == ret.fn \in ResolverFns

\* the call started after an invalidation that no load had followed yet, and
\* neither an invalidation nor a change of the store fell into the call
FirstAfterInvalidation == IsResolverCall /\ ret.start.found = "invalidated"

\* the call found a configuration in the cache, and no invalidation fell into it
OnFilledCache == IsResolverCall /\ ret.start.found = "filled"

(* C19: the first call after an invalidation has the configuration loaded    *)
(* again and answers from what the store holds then; a call that finds a     *)
(* loaded configuration answers from it, whatever the store holds by then.   *)
C19_InvalidateReloads ==
    /\ FirstAfterInvalidation =>
          ret.reloaded /\ ret.value = Recomputed(ret.start.basis)
    /\ OnFilledCache => ret.value = Recomputed(ret.start.basis)

\* a call after an invalidation that answers from the configuration the store
\* came to hold by a change
C19_Witness ==
    /\ FirstAfterInvalidation
    /\ storeChanges >= 1 /\ ret.start.basis = ok(store)
    /\ ret.value # None

\* a call that answers from the loaded configuration and not from the store's
C19_StaleWitness ==
    /\ OnFilledCache
    /\ invalidations = 0 /\ ret.start.basis # ok(store)
    /\ ret.value # Recomputed(ok(store))


-----------------------------------------------------------------------------
(* The two thresholds of a segment under the editor's cycling actions.       *)

\* C20: in every state the editor reaches from a built-in theme, each segment's
\* critical threshold is at least its warning threshold
C20_CriticalAtLeastWarning ==
    \A i \in 1..Len(config.segments) :
       threshold_option(config.segments[i].options, "critical_threshold", 80)
          >= threshold_option(config.segments[i].options, "warning_threshold", 60)


-----------------------------------------------------------------------------
(* The range of the colors the threshold resolver constructs.                *)

\* the number a color option holds under a key, if it holds one
configured_number(options, option, key) ==
    LET v == options_get(options, option)
        m == IF IsSome(v) THEN json_get(Unwrap(v), key) ELSE None
    IN  IF IsSome(m) THEN as_u64(Unwrap(m)) ELSE None

(* C21: a Color16 the resolver returns has c16 in 0..15, and a Color256 it   *)
(* returns has the very number the option holds under c256.                  *)
C21_ColorInRange ==
    (RetFound /\ IsColorCall /\ IsSome(ret.value)) =>
        /\ Unwrap(ret.value).kind = "Color16" => Unwrap(ret.value).c16 \in 0..15
        /\ Unwrap(ret.value).kind = "Color256" =>
              \E option \in {"warning_color", "critical_color"} :
                 configured_number(RetOptions, option, "c256")
                    = Some(Unwrap(ret.value).c256)


-----------------------------------------------------------------------------
(* The height the preview asks for.                                          *)

IsHeightCall == ret.fn = "calculate_height"

(* C22: the height is within 3 and 8 rows, is line_count + 2 for 1 to 6      *)
(* lines, and does not fall when the number of lines grows.                  *)
C22_HeightClamped ==
    IsHeightCall =>
        /\ ret.value >= 3 /\ ret.value <= 8
        /\ ret.args[1] \in 1..6 => ret.value = ret.args[1] + 2
        /\ \A fewer \in LineCounts :
              fewer <= ret.args[1] => height_of_lines(fewer) <= ret.value

\* the same for the numbers of lines that stay below the end of the u16 range
C22_HeightClampedBelowU16 ==
    (IsHeightCall /\ ret.args[1] + 2 < U16) =>
        /\ ret.value >= 3 /\ ret.value <= 8
        /\ ret.args[1] \in 1..6 => ret.value = ret.args[1] + 2
        /\ \A fewer \in LineCounts :
              fewer <= ret.args[1] => height_of_lines(fewer) <= ret.value


-----------------------------------------------------------------------------
(* The shared resolver of threshold_utils.rs next to the two usage segments. *)

\* the overrides the shared resolver gives for a segment of the configuration
resolver_overrides(cfg, segment_id, utilization) ==
    LET color_override ==
            get_color_for_utilization(Some(cfg), Some(cfg), segment_id, utilization)
        should_bold == should_be_bold(Some(cfg), Some(cfg), segment_id, utilization)
        present == {k \in OverrideKeys :
                       \/ k = "text_color_override" /\ IsSome(color_override)
                       \/ k = "text_bold_override" /\ IsSome(should_bold)}
    IN  [k \in present |->
            IF k = "text_color_override"
            THEN serialize_ansi_color_to_json(Unwrap(color_override))
            ELSE bool_to_string(Unwrap(should_bold))]

(* C24: on the same configuration and utilization the usage segment embeds   *)
(* the color override and the boldness override of the shared resolver.      *)
C24_ImplementationsAgree ==
    ret.fn = "collect" =>
        ret.value = resolver_overrides(Config(<<usage_segment(ret.args[1], ret.args[2])>>),
                                       ret.args[1], ret.args[3])

\* the same for the color override alone
C24_ColorsAgree ==
    ret.fn = "collect" =>
        LET shared == resolver_overrides(
                          Config(<<usage_segment(ret.args[1], ret.args[2])>>),
                          ret.args[1], ret.args[3])
        IN  /\ ("text_color_override" \in DOMAIN ret.value)
                  = ("text_color_override" \in DOMAIN shared)
            /\ "text_color_override" \in DOMAIN shared =>
                  ret.value["text_color_override"] = shared["text_color_override"]


-----------------------------------------------------------------------------
(* One call, one configuration.                                              *)

\* what Config::load can have given a call
LoadOutcomes == {ok(st) : st \in StoreSamples}

(* C25: the value a color or boldness call returns is the value for one      *)
(* loaded configuration: thresholds and option come from the same one.       *)
C25_OneSnapshot ==
    (IsColorCall \/ IsBoldCall) =>
        \E snapshot \in LoadOutcomes : ret.value = Recomputed(snapshot)


-----------------------------------------------------------------------------
(* GitSegment::get_status: the output of `git status --porcelain` is a text, *)
(* a sequence of characters; an entry is the two status columns, a space,    *)
(* the path and a line end.                                                  *)

MaxEntries == 2

StatusCodes == {<<"U", "U">>, <<"A", "A">>, <<"D", "D">>, <<" ", "M">>, <<"A", " ">>,
                <<"?", "?">>}
ConflictCodes == {<<"U", "U">>, <<"A", "A">>, <<"D", "D">>}
PathSamples == {<<"x">>, <<"U", "U">>, <<"D", "D", "x">>, <<"x", "A", "A">>,
                <<"A", "x", "D">>}

Entry(xy, path) == [xy |-> xy, path |-> path]
Entries == {Entry(xy, path) : xy \in StatusCodes, path \in PathSamples}

RECURSIVE porcelain(_)
\* the text git prints for the entries
porcelain(entries) ==
    IF entries = <<>> THEN <<>>
    ELSE entries[1].xy \o <<" ">> \o entries[1].path \o <<"\n">>
             \o porcelain(Tail(entries))

\* the outputs of the git command: a failure, or the text for up to MaxEntries
\* entries, or a text of blank lines
GitOutputs ==
    {Err} \cup {Ok(<<" ", "\n">>)}
          \cup {Ok(porcelain(es)) : es \in UNION {[1..n -> Entries] : n \in 0..MaxEntries}}

RECURSIVE lines(_)
\* str::lines
lines(text) ==
    IF text = <<>> THEN <<>>
    ELSE IF \E i \in 1..Len(text) : text[i] = "\n"
         THEN LET i == CHOOSE i \in 1..Len(text) :
                           text[i] = "\n" /\ \A j \in 1..(i - 1) : text[j] # "\n"
              IN  <<SubSeq(text, 1, i - 1)>> \o lines(SubSeq(text, i + 1, Len(text)))
         ELSE <<text>>

\* line.trim().is_empty()
trim_is_empty(line) == \A i \in 1..Len(line) : line[i] = " "

\* str::contains
contains(text, pat) ==
    \E i \in 1..(Len(text) - Len(pat) + 1) : SubSeq(text, i, i + Len(pat) - 1) = pat

GitStatusOf(status, count) == [status |-> status, dirty_count |-> count]

get_status(output) ==
    IF ~output.ok THEN GitStatusOf("Clean", 0)
    ELSE LET status_text == output.v
             kept == SelectSeq(lines(status_text), LAMBDA line : ~trim_is_empty(line))
             count == Len(kept)
         IN  IF count = 0 THEN GitStatusOf("Clean", 0)
             ELSE IF \/ contains(status_text, <<"U", "U">>)
                     \/ contains(status_text, <<"A", "A">>)
                     \/ contains(status_text, <<"D", "D">>)
                  THEN GitStatusOf("Conflicts", count)
                  ELSE GitStatusOf("Dirty", count)

GitInit ==
    /\ ret = NoCall
    /\ ResolverIdle /\ AppIdle

CallGetStatus ==
    /\ ret = NoCall
    /\ \E output \in GitOutputs :
          ret' = Returned("get_status", <<output>>, get_status(output))
    /\ UNCHANGED <<cacheVars, appVars>>

GitNext == CallGetStatus \/ Drop

GitSpec == GitInit /\ [][GitNext]_vars

IsGetStatusCall == ret.fn = "get_status"

\* the entries of a text git printed: the lines with their status columns
HasConflictEntry(output) ==
    /\ output.ok
    /\ \E i \in 1..Len(lines(output.v)) :
          /\ ~trim_is_empty(lines(output.v)[i])
          /\ SubSeq(lines(output.v)[i], 1, 2) \in ConflictCodes

(* C30: get_status reports Conflicts exactly when an entry of the output has *)
(* UU, AA or DD in its status columns; a path with those letters alone gives *)
(* Dirty, and an output without entries gives Clean with a count of 0.       *)
C30_ConflictsIffStatusColumns ==
    IsGetStatusCall =>
        /\ (ret.value.status = "Conflicts") = HasConflictEntry(ret.args[1])
        /\ (ret.args[1].ok /\ ret.args[1].v = <<>>) => ret.value = GitStatusOf("Clean", 0)

\* the part of it that does not depend on where the letters stand
C30_CleanAndCount ==
    IsGetStatusCall =>
        /\ HasConflictEntry(ret.args[1]) => ret.value.status = "Conflicts"
        /\ (ret.args[1].ok /\ ret.args[1].v = <<>>) => ret.value = GitStatusOf("Clean", 0)
        /\ ret.value.status = "Clean" <=> ret.value.dirty_count = 0


-----------------------------------------------------------------------------
(* App::run: the terminal is set up, then a frame is drawn and an event read *)
(* until Esc, then the terminal is restored.  The popup components and the   *)
(* theme files are collaborators: a popup is its is_open flag, a theme is    *)
(* the configuration its file holds.  The status message, the separator, the *)
(* icons and config.theme are not kept; a key that changes only those leaves *)
(* the state as it is, and cycle_theme and reset_to_theme_defaults switch to *)
(* a theme of any name.                                                      *)

\* the edits of a configuration that are followed before a theme is loaded again
MaxEdits == 1

\* open() and close() of a popup component
open(ps, p) == [ps EXCEPT ![p] = TRUE]
close(ps, p) == [ps EXCEPT ![p] = FALSE]

ThemeNames == {"default", "minimal", "gruvbox", "nord"}

\* ThemePresets::get_theme: the configuration the theme's file holds
get_theme(theme_name) ==
    IF theme_name \in {"default", "gruvbox"}
    THEN Config(<<model_segment, usage_5hour_segment>>)
    ELSE Config(<<model_segment>>)

\* the configurations Config::load gives run: a theme's, or a file without segments
RunConfigs == {get_theme(theme_name) : theme_name \in ThemeNames} \cup {Config(<<>>)}

\* the colors the color picker hands over on Enter
PickerColors == {None, Some(Color256(196))}

\* the key routing taking the main branch whatever is open
handler_MainAlways(ps) == "main"

\* the branch of the key routing in run that handles a key press
handler(ps) ==
    IF ps["name_input"] THEN "name_input"
    ELSE IF ps["separator_editor"] THEN "separator_editor"
    ELSE IF ps["color_picker"] THEN "color_picker"
    ELSE IF ps["icon_selector"] THEN "icon_selector"
    ELSE "main"

\* toggle_current: the popup Enter opens in the settings panel
toggle_opens(ps, panel, fld) ==
    IF panel = "Settings" /\ fld = "Icon" THEN open(ps, "icon_selector")
    ELSE IF panel = "Settings" /\ fld \in ColorFields THEN open(ps, "color_picker")
    ELSE ps

\* ui() leaving the preview as the handlers left it
ui_KeepsPreview(self, cfg, width) == self

\* App::ui: the preview component after a frame was drawn on a terminal of a width
ui(self, cfg, width) == update_preview_with_width(self, cfg, width)

Returns(result) == [run EXCEPT !.pc = "returned", !.result = Some(result)]
\* the end of an iteration of the loop: should_quit is not set
Loops == [run EXCEPT !.pc = "draw", !.last = None]
Edited == [Loops EXCEPT !.edits = @ + 1]
\* the same after a key press a popup handled: last keeps the popup and the key
\* until the next frame is drawn
PopupLoops(key) == [run EXCEPT !.pc = "draw", !.last = Some(<<handler(popups), key>>)]
Reading == run.pc = "read" /\ ~panicked
MainKey == Reading /\ handler(popups) = "main"

RunInit ==
    /\ config \in RunConfigs
    /\ selected_segment = 0 /\ selected_panel = NoPanel /\ selected_field = NoField
    /\ preview = PreviewNew /\ color = NoColor /\ ret = NoCall
    /\ run = [pc |-> "enable_raw_mode", result |-> None, should_quit |-> FALSE,
               edits |-> 0, last |-> None]
    /\ \E width \in TerminalWidths :
          terminal = [raw_mode |-> FALSE, alternate_screen |-> FALSE, entered |-> FALSE,
                      width |-> width]
    /\ popups = AllClosed /\ panicked = FALSE
    /\ ResolverIdle

appFields == <<config, selected_segment, selected_field, selected_panel, preview, ret>>

\* enable_raw_mode()?
EnableRawMode ==
    /\ run.pc = "enable_raw_mode"
    /\ \E done \in BOOLEAN :
          IF done
          THEN /\ terminal' = [terminal EXCEPT !.raw_mode = TRUE]
               /\ run' = [run EXCEPT !.pc = "enter_alternate_screen"]
          ELSE /\ run' = Returns("Err")
               /\ UNCHANGED terminal
    /\ UNCHANGED <<cacheVars, appFields, color, popups, panicked>>

\* execute!(stdout, EnterAlternateScreen)?
EnterAlternateScreen ==
    /\ run.pc = "enter_alternate_screen"
    /\ \E done \in BOOLEAN :
          IF done
          THEN /\ terminal' = [terminal EXCEPT !.alternate_screen = TRUE, !.entered = TRUE]
               /\ run' = [run EXCEPT !.pc = "terminal_new"]
          ELSE /\ run' = Returns("Err")
               /\ UNCHANGED terminal
    /\ UNCHANGED <<cacheVars, appFields, color, popups, panicked>>

\* Terminal::new(backend)? and App::new(config)
TerminalNew ==
    /\ run.pc = "terminal_new"
    /\ \E done \in BOOLEAN :
          IF done
          THEN /\ selected_segment' = 0
               /\ selected_panel' = "SegmentList"
               /\ selected_field' = "Enabled"
               /\ preview' = update_preview(PreviewNew, config)
               /\ ret' = Updated(config, 80)
               /\ run' = Loops
          ELSE /\ run' = Returns("Err")
               /\ UNCHANGED <<selected_segment, selected_panel, selected_field, preview, ret>>
    /\ UNCHANGED <<cacheVars, config, color, terminal, popups, panicked>>

\* terminal.draw(|f| app.ui(f))?
DrawFrame ==
    /\ run.pc = "draw" /\ ~panicked
    /\ \E done \in BOOLEAN :
          IF done
          THEN /\ preview' = ui(preview, config, terminal.width)
               /\ ret' = Updated(config, terminal.width)
               /\ run' = [run EXCEPT !.pc = "read", !.last = None]
          ELSE /\ run' = Returns("Err")
               /\ UNCHANGED <<preview, ret>>
    /\ UNCHANGED <<cacheVars, config, selected_segment, selected_panel, selected_field,
                   color, terminal, popups, panicked>>

\* event::read()? fails
ReadError ==
    /\ Reading
    /\ run' = Returns("Err")
    /\ UNCHANGED <<cacheVars, appFields, color, terminal, popups, panicked>>

\* the terminal is resized: the event is no key
Resize ==
    /\ Reading
    /\ \E width \in TerminalWidths \ {terminal.width} :
          terminal' = [terminal EXCEPT !.width = width]
    /\ run' = Loops
    /\ UNCHANGED <<cacheVars, appFields, color, popups, panicked>>

\* an event that is no key press, a key without a binding, and s, w: nothing kept
\* here changes
KeyUnbound ==
    /\ Reading
    /\ run' = Loops
    /\ UNCHANGED <<cacheVars, appFields, color, terminal, popups, panicked>>

\* Esc while a popup is open
PopupEsc ==
    /\ Reading /\ handler(popups) # "main"
    /\ popups' = close(popups, handler(popups))
    /\ run' = PopupLoops("Esc")
    /\ UNCHANGED <<cacheVars, appFields, color, terminal, panicked>>

\* Enter in the name input: save_as_new_theme
NameInputEnter ==
    /\ Reading /\ handler(popups) = "name_input"
    /\ popups' = close(popups, "name_input")
    /\ run' = PopupLoops("Enter")
    /\ UNCHANGED <<cacheVars, appFields, color, terminal, panicked>>

\* Enter in the separator editor, and Enter in the icon selector on an icon of the
\* list: the configuration's separator or icon, then update_preview
SeparatorOrIconEnter ==
    /\ Reading /\ handler(popups) \in {"separator_editor", "icon_selector"}
    /\ popups' = close(popups, handler(popups))
    /\ IF handler(popups) = "separator_editor"
          \/ IsSome(selected_get(config, selected_segment))
       THEN /\ preview' = update_preview(preview, config)
            /\ ret' = Updated(config, 80)
       ELSE UNCHANGED <<preview, ret>>
    /\ run' = PopupLoops("Enter")
    /\ UNCHANGED <<cacheVars, config, selected_segment, selected_panel, selected_field,
                   color, terminal, panicked>>

\* Enter in the color picker: apply_selected_color on the color it has, if any
ColorPickerEnter ==
    /\ Reading /\ handler(popups) = "color_picker"
    /\ \E picked \in PickerColors :
          IF IsSome(picked) /\ IsSome(selected_get(config, selected_segment))
          THEN /\ config' = apply_selected_color(config, selected_segment,
                                                 selected_field, Unwrap(picked))
               /\ preview' = update_preview(preview, config')
               /\ ret' = Updated(config', 80)
          ELSE UNCHANGED <<config, preview, ret>>
    /\ config' # config => run.edits < MaxEdits
    /\ run' = [PopupLoops("Enter") EXCEPT !.edits = IF config' # config THEN @ + 1 ELSE @]
    /\ popups' = close(popups, "color_picker")
    /\ UNCHANGED <<cacheVars, selected_segment, selected_panel, selected_field, color,
                   terminal, panicked>>

\* any other key while a popup is open, and Enter in the icon selector while a
\* custom icon is typed: the popup's own state
PopupKey ==
    /\ Reading /\ handler(popups) # "main"
    /\ run' = PopupLoops("Other")
    /\ UNCHANGED <<cacheVars, appFields, color, terminal, popups, panicked>>

\* Esc: should_quit, and the loop breaks with Ok(())
KeyEsc ==
    /\ MainKey
    /\ run' = [run EXCEPT !.should_quit = TRUE, !.result = Some("Ok"),
                          !.pc = "disable_raw_mode", !.last = None]
    /\ UNCHANGED <<cacheVars, appFields, color, terminal, popups, panicked>>

\* Ctrl+S
KeyCtrlS ==
    /\ MainKey
    /\ popups' = open(popups, "name_input")
    /\ run' = Loops
    /\ UNCHANGED <<cacheVars, appFields, color, terminal, panicked>>

\* e, E: open_separator_editor
KeyE ==
    /\ MainKey
    /\ popups' = open(popups, "separator_editor")
    /\ run' = Loops
    /\ UNCHANGED <<cacheVars, appFields, color, terminal, panicked>>

\* Up, Down: move_selection
KeyMove(delta) ==
    /\ MainKey
    /\ MoveSelection(delta)
    /\ run' = Loops
    /\ UNCHANGED <<terminal, popups>>

\* Shift+Up: move_segment_up
KeyShiftUp ==
    /\ MainKey
    /\ MoveSegmentUp
    /\ run' = Loops
    /\ UNCHANGED <<terminal, popups>>

\* Shift+Down: move_segment_down
KeyShiftDown ==
    /\ MainKey
    /\ MoveSegmentDown
    /\ run' = Loops
    /\ UNCHANGED <<terminal, popups>>

\* Enter: toggle_current
KeyEnter ==
    /\ MainKey
    /\ ToggleCurrent
    /\ config' # config => run.edits < MaxEdits
    /\ run' = IF config' # config THEN Edited ELSE Loops
    /\ popups' = toggle_opens(popups, selected_panel, selected_field)
    /\ UNCHANGED terminal

\* Tab: switch_panel
KeyTab ==
    /\ MainKey
    /\ SwitchPanel
    /\ run' = Loops
    /\ UNCHANGED <<terminal, popups>>

\* switch_to_theme
switch_to_theme(theme_name) ==
    /\ config' = get_theme(theme_name)
    /\ selected_segment' = 0
    /\ preview' = update_preview(preview, config')
    /\ ret' = Updated(config', 80)
    /\ UNCHANGED <<cacheVars, selected_panel, selected_field, color, panicked>>

\* 1, 2, 3, 4: switch_to_theme; p: cycle_theme; r: reset_to_theme_defaults
KeyTheme ==
    /\ MainKey
    /\ \E theme_name \in ThemeNames : switch_to_theme(theme_name)
    /\ run' = [Loops EXCEPT !.edits = 0]
    /\ UNCHANGED <<terminal, popups>>

\* disable_raw_mode()?
DisableRawMode ==
    /\ run.pc = "disable_raw_mode"
    /\ \E done \in BOOLEAN :
          IF done
          THEN /\ terminal' = [terminal EXCEPT !.raw_mode = FALSE]
               /\ run' = [run EXCEPT !.pc = "leave_alternate_screen"]
          ELSE /\ run' = Returns("Err")
               /\ UNCHANGED terminal
    /\ UNCHANGED <<cacheVars, appFields, color, popups, panicked>>

\* execute!(terminal.backend_mut(), LeaveAlternateScreen)?
LeaveAlternateScreen ==
    /\ run.pc = "leave_alternate_screen"
    /\ \E done \in BOOLEAN :
          IF done
          THEN /\ terminal' = [terminal EXCEPT !.alternate_screen = FALSE]
               /\ run' = [run EXCEPT !.pc = "show_cursor"]
          ELSE /\ run' = Returns("Err")
               /\ UNCHANGED terminal
    /\ UNCHANGED <<cacheVars, appFields, color, popups, panicked>>

\* terminal.show_cursor()? and the result of the loop
ShowCursor ==
    /\ run.pc = "show_cursor"
    /\ \E done \in BOOLEAN :
          run' = IF done THEN [run EXCEPT !.pc = "returned"] ELSE Returns("Err")
    /\ UNCHANGED <<cacheVars, appFields, color, terminal, popups, panicked>>

RunNext ==
    \/ EnableRawMode \/ EnterAlternateScreen \/ TerminalNew
    \/ DrawFrame \/ ReadError \/ Resize \/ KeyUnbound
    \/ PopupEsc \/ NameInputEnter \/ SeparatorOrIconEnter \/ ColorPickerEnter \/ PopupKey
    \/ KeyEsc \/ KeyCtrlS \/ KeyE
    \/ \E delta \in {-1, 1} : KeyMove(delta)
    \/ KeyShiftUp \/ KeyShiftDown \/ KeyEnter \/ KeyTab \/ KeyTheme
    \/ DisableRawMode \/ LeaveAlternateScreen \/ ShowCursor

RunSpec == RunInit /\ [][RunNext]_vars

\* App exists: run is in its loop
InLoop == run.pc \in {"draw", "read"}

(* C23: the frame on the screen shows the preview of the configuration as it *)
(* is now, wrapped at the width the terminal has now, whatever edits and     *)
(* resizes came before, and not what an edit handler left at width 80.       *)
C23_FrameShowsCurrent ==
    run.pc = "read" =>
        preview = update_preview_with_width(PreviewNew, config, terminal.width)

\* a frame after an edit on a narrow terminal, where width 80 gives other lines
C23_Witness ==
    /\ run.pc = "read" /\ run.edits > 0 /\ terminal.width = 20
    /\ preview # update_preview(PreviewNew, config)

\* SettingsComponent::render: the fields it draws a line for
settings_fields(cfg, sel) ==
    LET s == selected_get(cfg, sel)
    IN  IF ~IsSome(s) THEN {}
        ELSE {"Enabled", "Icon", "IconColor", "TextColor", "BackgroundColor", "TextStyle",
              "Options"}
             \cup (IF Unwrap(s).id \in {Usage5Hour, Usage7Day}
                   THEN {"WarningThreshold", "CriticalThreshold", "WarningColor",
                         "CriticalColor", "WarningBold", "CriticalBold"}
                   ELSE {})

(* C26: while the settings panel has the focus, the selected field is one of *)
(* the fields the panel draws for the selected segment.                      *)
C26_FieldOfSelectedKind ==
    (InLoop /\ selected_panel = "Settings"
       /\ IsSome(selected_get(config, selected_segment))) =>
        selected_field \in settings_fields(config, selected_segment)

\* the same for the segment that was selected when the field was moved to: it
\* fails only through a stale field
C26_EnterEditsShownOption ==
    (InLoop /\ selected_panel = "Settings"
       /\ IsSome(selected_get(config, selected_segment))
       /\ Unwrap(selected_get(config, selected_segment)).id = "Model") =>
        "warning_threshold" \notin DOMAIN Unwrap(selected_get(config, selected_segment)).options

Open(ps) == {p \in PopupNames : ps[p]}

C28_ValidIndex ==
    InLoop => (selected_segment < Len(config.segments) /\ ~panicked)

\* the same for the lists that have a segment
C28_ValidIndexNonEmpty ==
    (InLoop /\ Len(config.segments) > 0) =>
        (selected_segment < Len(config.segments) /\ ~panicked)

\* no handler panics
C28_NoPanic == ~panicked

\* the selected segment is an index or the first place of an empty list
C28_NoWrap == InLoop => selected_segment <= Len(config.segments)

(* C29: when run returns after raw mode was enabled and the alternate screen *)
(* entered, raw mode is disabled and the alternate screen left.              *)
C29_TerminalRestored ==
    (run.pc = "returned" /\ terminal.entered) =>
        (~terminal.raw_mode /\ ~terminal.alternate_screen)

\* the same on the path through Esc with the restoring calls succeeding
C29_RestoredOnQuit ==
    (run.pc = "returned" /\ run.result = Some("Ok")) =>
        (~terminal.raw_mode /\ ~terminal.alternate_screen)

====
